---- MODULE Spec2Model ----
(***************************************************************************)
(* Model of the `Getter` derive of utils-lib-derive (derive/src/getter).   *)
(*                                                                         *)
(* The derive is a pure, single threaded pipeline:                         *)
(*   option grammar (visibility.rs, name.rs, const_ty.rs, getter_ty.rs,    *)
(*   self_ty.rs, attribute_option.rs)                                      *)
(*     -> accumulators (option.rs, ParseGetterOption)                      *)
(*     -> attribute resolver (option.rs, GetterOption::parse, and          *)
(*        which_getter.rs)                                                 *)
(*     -> emitter (to_code) -> entry point (mod.rs, derive).               *)
(*                                                                         *)
(* Five specifications share the operators of the derive:                  *)
(*   SpecOption: parse_option of each aspect applied to one argument,      *)
(*   SpecArg   : ParseGetterOption::add_config applied to one argument,    *)
(*   SpecParse : ParseGetterOption::parse applied to an argument list,     *)
(*   SpecField : GetterOption::parse and to_code applied to one field,     *)
(*   Spec      : derive, one step per field of the struct.                 *)
(*                                                                         *)
(* Two more model the library crate utils-lib (src/src):                   *)
(*   SpecIter   : CoordinateIterator driven by next, next_back, size_hint, *)
(*   SpecNumber : gcd and lcm on an unsigned type of NumberBits bits.      *)
(***************************************************************************)
EXTENDS Integers, Sequences, FiniteSets, TLC

VARIABLES
    pc,             \* derive: position in `derive` (mod.rs)
    input,          \* derive: the DeriveInput (data shape and fields)
    field_index,    \* derive: number of fields already consumed by the iterator
    vec,            \* derive: the Vec<TokenStream2> collected so far
    log,            \* derive: per consumed field, the result of GetterOption::parse
    output,         \* derive: the returned TokenStream
    field,          \* field: the Field handed to GetterOption::parse
    getter_option,  \* field: the value returned by GetterOption::parse
    code,           \* field: the tokens of GetterOption::to_tokens
    accumulator,    \* parse: which impl of ParseGetterOption is used
    tokens,         \* parse: the argument list handed to ParseGetterOption::parse
    parsed,         \* parse: the value returned by ParseGetterOption::parse
    start,          \* add_config: the accumulator (`self`) before the call
    added,          \* add_config: the accumulator after the call and the returned value
    fragments,      \* add_config: the tokens of to_code on the accumulator after the call
    recognized,     \* parse_option: per aspect, the value returned on the argument
    coordinate,     \* iterator: the Coordinate the iterator was built from
    iter,           \* iterator: the CoordinateIterator
    returned,       \* iterator: the calls made on iter so far, each with its returned value
    numbers,        \* number: the arguments n1, n2 and the build profile
    gcd_ret,        \* number: the value returned by gcd(n1, n2)
    lcm_ret         \* number: the value returned by lcm(n1, n2)

vars == <<pc, input, field_index, vec, log, output,
          field, getter_option, code, accumulator, tokens, parsed,
          start, added, fragments, recognized,
          coordinate, iter, returned, numbers, gcd_ret, lcm_ret>>

deriveVars == <<pc, input, field_index, vec, log, output>>
fieldVars == <<field, getter_option, code>>
parseVars == <<accumulator, tokens, parsed, start, added, fragments, recognized>>
iterVars == <<coordinate, iter, returned>>
numberVars == <<numbers, gcd_ret, lcm_ret>>
libVars == <<iterVars, numberVars>>

-----------------------------------------------------------------------------
(* Option and Result of the Rust code.                                     *)

None == [tag |-> "None"]
Some(x) == [tag |-> "Some", v |-> x]
Ok(x) == [tag |-> "Ok", v |-> x]
Err(e) == [tag |-> "Err", e |-> e]
\* an unwinding panic: the call does not return
Panic == [tag |-> "Panic"]

\* a variable of a specification that is not running
Idle == [tag |-> "Idle"]
\* a result not yet computed
Pending == [tag |-> "Pending"]

-----------------------------------------------------------------------------
(* The syntax tree handed over by syn.                                     *)
(*   Path   : sequence of segments, <<"public">> or <<"not","an","ident">> *)
(*   Expr   : right hand side of `name = expr`                             *)
(*   Meta   : Path | NameValue | List                                      *)

\* Path::get_ident: Some only for a single segment path
get_ident(path) == IF Len(path) = 1 THEN Some(path[1]) ELSE None

\* Path::is_ident
is_ident(path, s) == Len(path) = 1 /\ path[1] = s

LitStr(s) == [lit |-> "Str", s |-> s]
LitBool(b) == [lit |-> "Bool", s |-> IF b THEN "true" ELSE "false"]
LitInt(s) == [lit |-> "Int", s |-> s]
\* an expression that is not a literal, e.g. `not::a::string`
ExprPath(s) == [lit |-> "NotLit", s |-> s]

MetaPath(p) == [meta |-> "Path", path |-> p, value |-> ExprPath(""), args |-> <<>>]
MetaNameValue(p, e) == [meta |-> "NameValue", path |-> p, value |-> e, args |-> <<>>]
\* args: the token trees between the parentheses, each [tok, s]
MetaList(p, a) == [meta |-> "List", path |-> p, value |-> ExprPath(""), args |-> a]

TokIdent(s) == [tok |-> "Ident", s |-> s]
TokLit(s) == [tok |-> "Lit", s |-> s]
TokPunct(s) == [tok |-> "Punct", s |-> s]

\* MetaList::parse_args::<Ident>: exactly one identifier token
parse_args_Ident(args) ==
    IF Len(args) = 1 /\ args[1].tok = "Ident" THEN Ok(args[1].s) ELSE Err("IdentParseError")

\* attribute_option.rs: get_string_literal
get_string_literal(expr) == IF expr.lit = "Str" THEN Some(expr.s) ELSE None

-----------------------------------------------------------------------------
(* Results of parse_option: Ok(value), Acceptable(err), Unacceptable(err), *)
(* or a panic raised while building the value.                             *)

Acceptable(e) == [tag |-> "Acceptable", e |-> e]
Unacceptable(e) == [tag |-> "Unacceptable", e |-> e]

\* Option<Self>::ok_or(Unacceptable(RightHandValueInvalid)), a panic passes through
OkOrInvalid(opt) ==
    CASE opt.tag = "Some" -> Ok(opt.v)
      [] opt.tag = "Panic" -> Panic
      [] OTHER -> Unacceptable("RightHandValueInvalid")

-----------------------------------------------------------------------------
(* Facts about the text of the strings used as inputs.  Rust inspects the  *)
(* characters of a string; the strings that can occur are listed here.     *)

\* str::split_once('('): the text before and after the first parenthesis
split_once_paren(string) ==
    CASE string = "pub(super)" -> Some(<<"pub", "super)">>)
      [] string = "pub(crate" -> Some(<<"pub", "crate">>)
      [] string = "priv(super)" -> Some(<<"priv", "super)">>)
      [] OTHER -> None

\* str::strip_suffix(')')
strip_suffix_paren(string) ==
    CASE string = "super)" -> Some("super")
      [] OTHER -> None

\* strings for which proc_macro2::Ident::new panics (not a legal identifier);
\* a raw identifier is built by Ident::new_raw only
InvalidIdentStrings == {"", "1x", "a b", "r#type_mut"}

\* proc_macro2::Ident::new(string, Span::call_site())
Ident_new(string) == IF string \in InvalidIdentStrings THEN Panic ELSE Ok(string)

-----------------------------------------------------------------------------
(* visibility.rs                                                           *)

VisPublic == [vis |-> "Public", path |-> None]
VisPrivate == [vis |-> "Private", path |-> None]
VisCrate(opt) == [vis |-> "Crate", path |-> opt]

Visibility_default == VisPrivate

visibility_from_path_str(string) ==
    IF string = "pub" \/ string = "public" THEN Some(VisPublic)
    ELSE IF string = "crate" THEN Some(VisCrate(None))
    ELSE IF string = "private" THEN Some(VisPrivate)
    ELSE LET split == split_once_paren(string)
         IN  IF split.tag = "Some" /\ split.v[1] = "pub"
                /\ strip_suffix_paren(split.v[2]).tag = "Some"
             THEN Some(VisCrate(Some(strip_suffix_paren(split.v[2]).v)))
             ELSE None

Visibility_parse_option_from_str(path) == visibility_from_path_str(path)

Visibility_parse_option_from_str_assignment(path) == Visibility_parse_option_from_str(path)

Visibility_left_hand_path_accepted(path) == path = "visibility"

\* impl ToCode for Visibility: the emitted keyword fragment
Visibility_to_code(visibility) ==
    CASE visibility.vis = "Private" -> <<>>
      [] visibility.vis = "Public" -> <<"pub">>
      [] visibility.vis = "Crate" ->
            <<"pub", "(", (IF visibility.path.tag = "Some" THEN visibility.path.v ELSE "crate"), ")">>

-----------------------------------------------------------------------------
(* name.rs                                                                 *)

FunctionName_new(name) == [name |-> name]

FunctionName_default == FunctionName_new(None)

FunctionName_parse_option_from_str(path) == None

FunctionName_parse_option_from_str_assignment(path) ==
    LET ident == Ident_new(path)
    IN  IF ident.tag = "Panic" THEN Panic ELSE Some(FunctionName_new(Some(ident.v)))

FunctionName_left_hand_path_accepted(path) == path = "name"

-----------------------------------------------------------------------------
(* const_ty.rs                                                             *)

ConstTy_default == "NonConstant"

ConstTy_left_hand_path_accepted(path) ==
    path = "const" \/ path = "Const" \/ path = "constant" \/ path = "Constant"

ConstTy_parse_option_from_str(path) ==
    IF ConstTy_left_hand_path_accepted(path) THEN Some("Constant") ELSE None

ConstTy_parse_option_from_str_assignment(path) ==
    IF ConstTy_parse_option_from_str(path).tag = "Some"
    THEN ConstTy_parse_option_from_str(path)
    ELSE IF path = "true" THEN Some("Constant")
    ELSE IF path = "false" THEN Some("NonConstant")
    ELSE None

\* impl From<bool> for ConstTy, on the text of the boolean literal
ConstTy_from_bool(value) == IF value = "true" THEN "Constant" ELSE "NonConstant"

\* variant of parse_name_value: the provided method of the trait, which takes no
\* boolean literal
ConstTy_parse_name_value_provided(name_value) ==
    LET ident == get_ident(name_value.path)
    IN  IF ident.tag = "None"
        THEN Unacceptable("LeftHandSideValuePathIsNotIdent")
        ELSE IF ConstTy_left_hand_path_accepted(ident.v)
        THEN LET string == get_string_literal(name_value.value)
             IN  IF string.tag = "None"
                 THEN Unacceptable("RightHandNameValueExprNotLitString")
                 ELSE OkOrInvalid(ConstTy_parse_option_from_str_assignment(string.v))
        ELSE Acceptable("LeftHandSideValueNotRecognized")

ConstTy_parse_name_value(name_value) ==
    LET ident == get_ident(name_value.path)
    IN  IF ident.tag = "None"
        THEN Unacceptable("LeftHandSideValuePathIsNotIdent")
        ELSE IF ConstTy_left_hand_path_accepted(ident.v)
        THEN IF name_value.value.lit = "Bool"
             THEN Ok(ConstTy_from_bool(name_value.value.s))
             ELSE LET string == get_string_literal(name_value.value)
                  IN  IF string.tag = "None"
                      THEN Unacceptable("RightHandNameValueExprNotLitString")
                      ELSE OkOrInvalid(ConstTy_parse_option_from_str_assignment(string.v))
        ELSE Acceptable("LeftHandSideValueNotRecognized")

ConstTy_quote(self) == IF self = "Constant" THEN <<"const">> ELSE <<>>

-----------------------------------------------------------------------------
(* getter_ty.rs                                                            *)

GetterTy_default == "Ref"

GetterTy_parse_string(path) ==
    CASE path \in {"by_ref", "by ref"} -> Some("Ref")
      [] path \in {"by_value", "by_copy", "copy", "Copy"} -> Some("Copy")
      [] path \in {"by_clone", "clone", "Clone"} -> Some("Clone")
      [] OTHER -> None

\* variant of left_hand_path_accepted: the return mode also answers to the
\* triggers of the receiver mode
GetterTy_left_hand_path_accepted_any_ty(path) ==
    path = "getter_ty" \/ path = "getter_type" \/ path = "Getter_ty" \/ path = "Getter_type"
        \/ path = "self_ty" \/ path = "Self_type"

GetterTy_left_hand_path_accepted(path) ==
    path = "getter_ty" \/ path = "getter_type" \/ path = "Getter_ty" \/ path = "Getter_type"

GetterTy_parse_option_from_str(path) == GetterTy_parse_string(path)

GetterTy_parse_option_from_str_assignment(path) == GetterTy_parse_option_from_str(path)

GetterTy_prefix_quote(self) == IF self = "Ref" THEN <<"&">> ELSE <<>>

GetterTy_suffix_quote(self) == IF self = "Clone" THEN <<".clone()">> ELSE <<>>

-----------------------------------------------------------------------------
(* self_ty.rs                                                              *)

SelfTy_default == "Ref"

SelfTy_parse_option_from_str(path) == None

SelfTy_parse_option_from_str_assignment(path) ==
    IF SelfTy_parse_option_from_str(path).tag = "Some"
    THEN SelfTy_parse_option_from_str(path)
    ELSE IF path = "value" \/ path = "copy" \/ path = "move" THEN Some("Value")
    ELSE IF path = "ref" THEN Some("Ref")
    ELSE None

SelfTy_left_hand_path_accepted(path) ==
    path = "self" \/ path = "self_ty" \/ path = "self_type"
        \/ path = "Self" \/ path = "Self_ty" \/ path = "Self_type"

SelfTy_quote(self) == IF self = "Ref" THEN <<"&">> ELSE <<>>

-----------------------------------------------------------------------------
(* attribute_option.rs: trait ParseOptionUtils.  `Self` names the          *)
(* implementing type; a call of a required method is dispatched on it.     *)

parse_option_from_str(Self, path) ==
    CASE Self = "Visibility" -> Visibility_parse_option_from_str(path)
      [] Self = "FunctionName" -> FunctionName_parse_option_from_str(path)
      [] Self = "ConstTy" -> ConstTy_parse_option_from_str(path)
      [] Self = "GetterTy" -> GetterTy_parse_option_from_str(path)
      [] Self = "SelfTy" -> SelfTy_parse_option_from_str(path)

parse_option_from_str_assignment(Self, path) ==
    CASE Self = "Visibility" -> Visibility_parse_option_from_str_assignment(path)
      [] Self = "FunctionName" -> FunctionName_parse_option_from_str_assignment(path)
      [] Self = "ConstTy" -> ConstTy_parse_option_from_str_assignment(path)
      [] Self = "GetterTy" -> GetterTy_parse_option_from_str_assignment(path)
      [] Self = "SelfTy" -> SelfTy_parse_option_from_str_assignment(path)

left_hand_path_accepted(Self, path) ==
    CASE Self = "Visibility" -> Visibility_left_hand_path_accepted(path)
      [] Self = "FunctionName" -> FunctionName_left_hand_path_accepted(path)
      [] Self = "ConstTy" -> ConstTy_left_hand_path_accepted(path)
      [] Self = "GetterTy" -> GetterTy_left_hand_path_accepted(path)
      [] Self = "SelfTy" -> SelfTy_left_hand_path_accepted(path)

parse_from_path(Self, path) ==
    LET ident == get_ident(path)
    IN  IF ident.tag = "Some" THEN parse_option_from_str(Self, ident.v) ELSE None

\* variant of parse_name_value: a right-hand side that is not a string literal is
\* left to the other aspects
parse_name_value_lenient(Self, name_value) ==
    LET ident == get_ident(name_value.path)
    IN  IF Self = "ConstTy" THEN ConstTy_parse_name_value(name_value)
        ELSE IF ident.tag = "None"
        THEN Unacceptable("LeftHandSideValuePathIsNotIdent")
        ELSE IF left_hand_path_accepted(Self, ident.v)
        THEN LET string == get_string_literal(name_value.value)
             IN  IF string.tag = "None"
                 THEN Acceptable("LeftHandSideValueNotRecognized")
                 ELSE OkOrInvalid(parse_option_from_str_assignment(Self, string.v))
        ELSE Acceptable("LeftHandSideValueNotRecognized")

\* the provided parse_name_value; ConstTy overrides it (ConstTy_parse_name_value).
\* The variant written LeftHandSideValueNotIdent in attribute_option.rs is the one
\* error.rs declares as LeftHandSideValuePathIsNotIdent.
parse_name_value(Self, name_value) ==
    LET ident == get_ident(name_value.path)
    IN  IF Self = "ConstTy" THEN ConstTy_parse_name_value(name_value)
        ELSE IF ident.tag = "None"
        THEN Unacceptable("LeftHandSideValuePathIsNotIdent")
        ELSE IF left_hand_path_accepted(Self, ident.v)
        THEN LET string == get_string_literal(name_value.value)
             IN  IF string.tag = "None"
                 THEN Unacceptable("RightHandNameValueExprNotLitString")
                 ELSE OkOrInvalid(parse_option_from_str_assignment(Self, string.v))
        ELSE Acceptable("LeftHandSideValueNotRecognized")

parse_meta_list(Self, meta_list) ==
    LET ident == get_ident(meta_list.path)
    IN  IF ident.tag = "None"
        THEN Unacceptable("LeftHandSideValuePathIsNotIdent")
        ELSE IF left_hand_path_accepted(Self, ident.v)
        THEN LET arg == parse_args_Ident(meta_list.args)
             IN  IF arg.tag = "Err"
                 THEN Unacceptable("IdentParseError")
                 ELSE OkOrInvalid(parse_option_from_str_assignment(Self, arg.v))
        ELSE Acceptable("LeftHandSideValueNotRecognized")

parse_option_utils(Self, option) ==
    CASE option.meta = "Path" ->
            LET match(r) == IF r.tag = "Some" THEN Ok(r.v) ELSE Acceptable("PathNotRecognized")
            IN  match(parse_from_path(Self, option.path))
      [] option.meta = "NameValue" -> parse_name_value(Self, option)
      [] option.meta = "List" -> parse_meta_list(Self, option)

\* impl<T: ParseOptionUtils> ParseOption for T
Visibility_parse_option(option) == parse_option_utils("Visibility", option)
FunctionName_parse_option(option) == parse_option_utils("FunctionName", option)
ConstTy_parse_option(option) == parse_option_utils("ConstTy", option)
GetterTy_parse_option(option) == parse_option_utils("GetterTy", option)
SelfTy_parse_option(option) == parse_option_utils("SelfTy", option)

-----------------------------------------------------------------------------
(* option_enum.rs and the accumulators of option.rs                        *)

\* MutableOptionList: "Visibility", "IdentOption"
\* ImmutableOptionList: MutableOption(MutableOptionList), ConstTy, GetterTy, SelfTy
ImmutableOption(o) == [opt |-> o, inner |-> "-"]

\* impl From<MutableOptionList> for ImmutableOptionList
MutableOption(o) == [opt |-> "MutableOption", inner |-> o]

\* Result<Self::Option, AddConfigError<Self::Option>> of add_config
AddOk(o) == [tag |-> "Ok", option |-> o, e |-> "-"]
AddAcceptable(e) == [tag |-> "Acceptable", option |-> "-", e |-> e]
AddUnacceptable(e, o) == [tag |-> "Unacceptable", option |-> o, e |-> e]
AddPanic == [tag |-> "Panic", option |-> "-", e |-> "-"]

MutableGetterOption_default ==
    [visibility |-> Visibility_default, name |-> FunctionName_default]

ImmutableGetterOption_default ==
    [option |-> MutableGetterOption_default, const_ty |-> ConstTy_default,
     ty |-> GetterTy_default, self_ty |-> SelfTy_default]

\* variant of add_config: the name is tried before the visibility
MutableGetterOption_add_config_name_first(self, option) ==
    LET match(vis, name) ==
        CASE name.tag = "Ok" ->
                [self |-> [self EXCEPT !.name = name.v], res |-> AddOk("IdentOption")]
          [] name.tag = "Unacceptable" ->
                [self |-> self, res |-> AddUnacceptable(name.e, "IdentOption")]
          [] name.tag = "Panic" -> [self |-> self, res |-> AddPanic]
          [] name.tag = "Acceptable" ->
                CASE vis.tag = "Ok" ->
                        [self |-> [self EXCEPT !.visibility = vis.v], res |-> AddOk("Visibility")]
                  [] vis.tag = "Unacceptable" ->
                        [self |-> self, res |-> AddUnacceptable(vis.e, "Visibility")]
                  [] vis.tag = "Panic" -> [self |-> self, res |-> AddPanic]
                  [] vis.tag = "Acceptable" ->
                        [self |-> self, res |-> AddAcceptable(vis.e)]
    IN  match(Visibility_parse_option(option), FunctionName_parse_option(option))

\* variant of add_config: a visibility that matches clears the name
MutableGetterOption_add_config_clearing(self, option) ==
    LET match(vis, name) ==
        CASE vis.tag = "Ok" ->
                [self |-> [visibility |-> vis.v, name |-> FunctionName_default],
                 res |-> AddOk("Visibility")]
          [] vis.tag = "Unacceptable" ->
                [self |-> self, res |-> AddUnacceptable(vis.e, "Visibility")]
          [] vis.tag = "Panic" -> [self |-> self, res |-> AddPanic]
          [] vis.tag = "Acceptable" ->
                CASE name.tag = "Ok" ->
                        [self |-> [self EXCEPT !.name = name.v], res |-> AddOk("IdentOption")]
                  [] name.tag = "Unacceptable" ->
                        [self |-> self, res |-> AddUnacceptable(name.e, "IdentOption")]
                  [] name.tag = "Panic" -> [self |-> self, res |-> AddPanic]
                  [] name.tag = "Acceptable" ->
                        [self |-> self, res |-> AddAcceptable(name.e)]
    IN  match(Visibility_parse_option(option), FunctionName_parse_option(option))

\* impl ParseGetterOption for MutableGetterOption: add_config(&mut self, option).
\* Returns the accumulator after the call and the returned value.
MutableGetterOption_add_config(self, option) ==
    LET match(vis, name) ==
        CASE vis.tag = "Ok" ->
                [self |-> [self EXCEPT !.visibility = vis.v], res |-> AddOk("Visibility")]
          [] vis.tag = "Unacceptable" ->
                [self |-> self, res |-> AddUnacceptable(vis.e, "Visibility")]
          [] vis.tag = "Panic" -> [self |-> self, res |-> AddPanic]
          [] vis.tag = "Acceptable" ->
                CASE name.tag = "Ok" ->
                        [self |-> [self EXCEPT !.name = name.v], res |-> AddOk("IdentOption")]
                  [] name.tag = "Unacceptable" ->
                        [self |-> self, res |-> AddUnacceptable(name.e, "IdentOption")]
                  [] name.tag = "Panic" -> [self |-> self, res |-> AddPanic]
                  [] name.tag = "Acceptable" ->
                        [self |-> self, res |-> AddAcceptable(name.e)]
    IN  match(Visibility_parse_option(option), FunctionName_parse_option(option))

\* impl ParseGetterOption for ImmutableGetterOption: add_config(&mut self, option)
ImmutableGetterOption_add_config(self, option) ==
    LET match(base, const_ty, ty, self_ty) ==
        CASE base.res.tag = "Ok" ->
                [self |-> [self EXCEPT !.option = base.self],
                 res |-> AddOk(MutableOption(base.res.option))]
          [] base.res.tag = "Unacceptable" ->
                [self |-> [self EXCEPT !.option = base.self],
                 res |-> AddUnacceptable(base.res.e, MutableOption(base.res.option))]
          [] base.res.tag = "Panic" -> [self |-> self, res |-> AddPanic]
          [] base.res.tag = "Acceptable" ->
             CASE const_ty.tag = "Ok" ->
                     [self |-> [self EXCEPT !.const_ty = const_ty.v],
                      res |-> AddOk(ImmutableOption("ConstTy"))]
               [] const_ty.tag = "Unacceptable" ->
                     [self |-> self, res |-> AddUnacceptable(const_ty.e, ImmutableOption("ConstTy"))]
               [] const_ty.tag = "Panic" -> [self |-> self, res |-> AddPanic]
               [] const_ty.tag = "Acceptable" ->
                  CASE ty.tag = "Ok" ->
                          [self |-> [self EXCEPT !.ty = ty.v],
                           res |-> AddOk(ImmutableOption("GetterTy"))]
                    [] ty.tag = "Unacceptable" ->
                          [self |-> self, res |-> AddUnacceptable(ty.e, ImmutableOption("GetterTy"))]
                    [] ty.tag = "Panic" -> [self |-> self, res |-> AddPanic]
                    [] ty.tag = "Acceptable" ->
                       CASE self_ty.tag = "Ok" ->
                               [self |-> [self EXCEPT !.self_ty = self_ty.v],
                                res |-> AddOk(ImmutableOption("SelfTy"))]
                         [] self_ty.tag = "Unacceptable" ->
                               [self |-> self,
                                res |-> AddUnacceptable(self_ty.e, ImmutableOption("SelfTy"))]
                         [] self_ty.tag = "Panic" -> [self |-> self, res |-> AddPanic]
                         [] self_ty.tag = "Acceptable" ->
                               [self |-> self, res |-> AddAcceptable(self_ty.e)]
    IN  match(MutableGetterOption_add_config(self.option, option), ConstTy_parse_option(option),
              GetterTy_parse_option(option), SelfTy_parse_option(option))

\* the two implementations of the trait ParseGetterOption, selected by the
\* attribute they serve: "get" (ImmutableGetterOption), "get_mut" (MutableGetterOption)
IMMUTABLE == "get"
MUTABLE == "get_mut"

\* variant of Default: the getters are public unless stated otherwise
Self_default_public(impl) ==
    IF impl = IMMUTABLE
    THEN [ImmutableGetterOption_default EXCEPT !.option.visibility = VisPublic]
    ELSE [MutableGetterOption_default EXCEPT !.visibility = VisPublic]

Self_default(impl) ==
    IF impl = IMMUTABLE THEN ImmutableGetterOption_default ELSE MutableGetterOption_default

\* variant of add_config: the mutable accumulator also hands the argument to the
\* receiver mode and returns its unacceptable failure
Self_add_config_with_receiver(impl, self, option) ==
    IF impl = IMMUTABLE
    THEN ImmutableGetterOption_add_config(self, option)
    ELSE LET match(r, self_ty) ==
                 IF r.res.tag = "Acceptable" /\ self_ty.tag = "Unacceptable"
                 THEN [self |-> self, res |-> AddUnacceptable(self_ty.e, "SelfTy")]
                 ELSE r
         IN  match(MutableGetterOption_add_config(self, option), SelfTy_parse_option(option))

Self_add_config(impl, self, option) ==
    IF impl = IMMUTABLE
    THEN ImmutableGetterOption_add_config(self, option)
    ELSE MutableGetterOption_add_config(self, option)

\* GetterParseError<T>
AddConfigError(e, o) == [err |-> "AddConfigError", e |-> e, option |-> o]
FieldAttributeOptionSetMultipleTimes(o) ==
    [err |-> "FieldAttributeOptionSetMultipleTimes", e |-> "-", option |-> o]

\* variant of HashSet_replace: the option is inserted and the previous value is not looked at
HashSet_replace_ignored(set, option) == None

\* HashSet::replace(option): the equal value already in the set, if any
HashSet_replace(set, option) == IF option \in set THEN Some(option) ELSE None

\* variant of the loop: an acceptable failure of add_config is returned like an
\* unacceptable one
RECURSIVE ParseGetterOption_loop_strict(_, _, _, _, _)
ParseGetterOption_loop_strict(impl, toks, i, set, s) ==
    IF i > Len(toks) THEN Ok(s)
    ELSE LET match(r) ==
             CASE r.res.tag = "Ok" ->
                     IF HashSet_replace(set, r.res.option).tag = "Some"
                     THEN Err(FieldAttributeOptionSetMultipleTimes(r.res.option))
                     ELSE ParseGetterOption_loop_strict(impl, toks, i + 1,
                                                        set \cup {r.res.option}, r.self)
               [] r.res.tag = "Acceptable" -> Err(AddConfigError(r.res.e, r.res.option))
               [] r.res.tag = "Unacceptable" ->
                     Err(AddConfigError(r.res.e, r.res.option))
               [] r.res.tag = "Panic" -> Panic
         IN  match(Self_add_config(impl, s, toks[i]))

\* ParseGetterOption::parse: the `for meta in tokens` loop from position i on,
\* with the loop state (set, s)
RECURSIVE ParseGetterOption_loop(_, _, _, _, _)
ParseGetterOption_loop(impl, toks, i, set, s) ==
    IF i > Len(toks) THEN Ok(s)
    ELSE LET match(r) ==
             CASE r.res.tag = "Ok" ->
                     IF HashSet_replace(set, r.res.option).tag = "Some"
                     THEN Err(FieldAttributeOptionSetMultipleTimes(r.res.option))
                     ELSE ParseGetterOption_loop(impl, toks, i + 1,
                                                 set \cup {r.res.option}, r.self)
               [] r.res.tag = "Acceptable" ->
                     ParseGetterOption_loop(impl, toks, i + 1, set, r.self)
               [] r.res.tag = "Unacceptable" ->
                     Err(AddConfigError(r.res.e, r.res.option))
               [] r.res.tag = "Panic" -> Panic
         IN  match(Self_add_config(impl, s, toks[i]))

ParseGetterOption_parse(impl, toks) ==
    ParseGetterOption_loop(impl, toks, 1, {}, Self_default(impl))

-----------------------------------------------------------------------------
(* macro_utils::field                                                      *)

\* FieldName: Ident(ident) for a named field, Index(index) for a position
FieldName_Ident(ident) == [variant |-> "Ident", ident |-> ident, index |-> 0]
FieldName_Index(index) == [variant |-> "Index", ident |-> "", index |-> index]

\* FieldName::from_field_part
from_field_part(opt_ident, index) ==
    IF opt_ident.tag = "Some" THEN FieldName_Ident(opt_ident.v) ELSE FieldName_Index(index)

\* FieldName::require_ident
FieldName_require_ident(field_name) ==
    IF field_name.variant = "Ident" THEN Some(field_name.ident) ELSE None

\* FieldInformation::from_field
FieldInformation_from_field(f) ==
    [field_name |-> from_field_part(f.ident, f.index), ty |-> f.ty]

\* the text of format!("{ident}_mut") for the field identifiers of the inputs;
\* Display of a raw identifier writes its r# prefix
format_mut(ident) ==
    CASE ident = "f" -> "f_mut"
      [] ident = "r#type" -> "r#type_mut"
      [] ident = "g" -> "g_mut"
      [] OTHER -> "ident_mut"

\* name.rs, FunctionName::name (and FunctionName::ident)
FunctionName_name(self, field_name) ==
    IF self.name.tag = "Some" THEN self.name ELSE FieldName_require_ident(field_name)

\* name.rs, FunctionName::name_mut
FunctionName_name_mut(self, field_name) ==
    IF self.name.tag = "Some" THEN self.name
    ELSE IF FieldName_require_ident(field_name).tag = "Some"
         THEN LET map(ident) == IF ident.tag = "Panic" THEN Panic ELSE Some(ident.v)
              IN  map(Ident_new(format_mut(FieldName_require_ident(field_name).v)))
         ELSE None

-----------------------------------------------------------------------------
(* which_getter.rs                                                         *)

Immutable(i) == [which |-> "Immutable", immutable |-> i, mutable |-> MutableGetterOption_default]
Mutable(m) == [which |-> "Mutable", immutable |-> ImmutableGetterOption_default, mutable |-> m]
Both(i, m) == [which |-> "Both", immutable |-> i, mutable |-> m]

\* variant of add_config: a config of the other kind replaces the selection instead
\* of extending it to Both
WhichGetter_add_config_replacing(self, other) ==
    CASE other.which = "Mutable" /\ self.which = "Both" -> Both(self.immutable, other.mutable)
      [] other.which = "Immutable" /\ self.which = "Both" -> Both(other.immutable, self.mutable)
      [] OTHER -> other

\* variant of add_config: the config of a kind already selected is kept
WhichGetter_add_config_keeping(self, other) ==
    CASE self.which = "Mutable" /\ other.which = "Mutable" -> self
      [] self.which \in {"Immutable", "Both"} /\ other.which = "Mutable" ->
            IF self.which = "Both" THEN self ELSE Both(self.immutable, other.mutable)
      [] self.which \in {"Mutable", "Both"} /\ other.which = "Immutable" ->
            IF self.which = "Both" THEN self ELSE Both(other.immutable, self.mutable)
      [] self.which = "Immutable" /\ other.which = "Immutable" -> self
      [] other.which = "Both" -> other

\* variant of add_config: merging into Both starts the other half again from its
\* default
WhichGetter_add_config_resetting(self, other) ==
    CASE self.which = "Mutable" /\ other.which = "Mutable" -> Mutable(other.mutable)
      [] self.which = "Immutable" /\ other.which = "Mutable" ->
            Both(self.immutable, other.mutable)
      [] self.which = "Both" /\ other.which = "Mutable" ->
            Both(ImmutableGetterOption_default, other.mutable)
      [] self.which = "Mutable" /\ other.which = "Immutable" ->
            Both(other.immutable, self.mutable)
      [] self.which = "Both" /\ other.which = "Immutable" ->
            Both(other.immutable, MutableGetterOption_default)
      [] self.which = "Immutable" /\ other.which = "Immutable" -> Immutable(other.immutable)
      [] other.which = "Both" -> other

\* WhichGetter::add_config(self, other)
WhichGetter_add_config(self, other) ==
    CASE self.which = "Mutable" /\ other.which = "Mutable" -> Mutable(other.mutable)
      [] self.which \in {"Immutable", "Both"} /\ other.which = "Mutable" ->
            Both(self.immutable, other.mutable)
      [] self.which \in {"Mutable", "Both"} /\ other.which = "Immutable" ->
            Both(other.immutable, self.mutable)
      [] self.which = "Immutable" /\ other.which = "Immutable" -> Immutable(other.immutable)
      [] other.which = "Both" -> other

\* option.rs, MutableGetterOption::validate
MutableGetterOption_validate(self) == Ok("()")

\* variant of ImmutableGetterOption::validate without the check of the receiver
ImmutableGetterOption_validate_unchecked(self) == MutableGetterOption_validate(self.option)

\* option.rs, ImmutableGetterOption::validate
ImmutableGetterOption_validate(self) ==
    IF MutableGetterOption_validate(self.option).tag = "Err"
    THEN MutableGetterOption_validate(self.option)
    ELSE IF self.self_ty = "Value" /\ self.ty = "Ref"
         THEN Err("SelfMoveOnReturnRef")
         ELSE Ok("()")

\* WhichGetter::validate
WhichGetter_validate(self) ==
    CASE self.which = "Immutable" -> ImmutableGetterOption_validate(self.immutable)
      [] self.which = "Mutable" -> MutableGetterOption_validate(self.mutable)
      [] self.which = "Both" ->
            IF MutableGetterOption_validate(self.mutable).tag = "Err"
            THEN MutableGetterOption_validate(self.mutable)
            ELSE ImmutableGetterOption_validate(self.immutable)

-----------------------------------------------------------------------------
(* The emitter: impl ToCode for the option types.  A declaration is the    *)
(* record of the fragments spliced into the quote! template.               *)

\* Display of FieldName
FieldName_display(field_name) ==
    IF field_name.variant = "Ident" THEN field_name.ident ELSE ToString(field_name.index)

\* Display of GetterTy
GetterTy_display(self) ==
    CASE self = "Ref" -> "reference"
      [] self = "Copy" -> "copied value"
      [] self = "Clone" -> "cloned value"

\* impl ToCode for ImmutableGetterOption; expect("no field name") panics on None.
\* template "fn(self)": #visibility #const_ty fn #fn_name(#self_ty self)
\*                          -> #prefix #ty { #prefix self.#field_name #suffix }
ImmutableGetterOption_to_code(self, field_information) ==
    LET fn_name == FunctionName_name(self.option.name, field_information.field_name)
        field_name == FieldName_display(field_information.field_name)
    IN  IF fn_name.tag = "None" THEN Panic
        ELSE Ok(<<[template |-> "fn(self)",
                   doc |-> <<"Getter on a", GetterTy_display(self.ty), "of the field",
                             field_name, "with type", field_information.ty>>,
                   visibility |-> Visibility_to_code(self.option.visibility),
                   const_ty |-> ConstTy_quote(self.const_ty),
                   fn_name |-> fn_name.v,
                   self_ty |-> SelfTy_quote(self.self_ty),
                   prefix |-> GetterTy_prefix_quote(self.ty),
                   ty |-> field_information.ty,
                   field_name |-> field_name,
                   suffix |-> GetterTy_suffix_quote(self.ty)]>>)

\* impl ToCode for MutableGetterOption.
\* template "fn(&mut self)": #visibility fn #fn_name(&mut self) -> &mut #ty
\*                               { &mut self.#field_name }
MutableGetterOption_to_code(self, field_information) ==
    LET fn_name == FunctionName_name_mut(self.name, field_information.field_name)
        field_name == FieldName_display(field_information.field_name)
    IN  IF fn_name.tag # "Some" THEN Panic
        ELSE Ok(<<[template |-> "fn(&mut self)",
                   doc |-> <<"Getter on a mutable reference of the field",
                             field_name, "with type", field_information.ty>>,
                   visibility |-> Visibility_to_code(self.visibility),
                   const_ty |-> <<>>,
                   fn_name |-> fn_name.v,
                   self_ty |-> <<>>,
                   prefix |-> <<>>,
                   ty |-> field_information.ty,
                   field_name |-> field_name,
                   suffix |-> <<>>]>>)

\* variant of to_code: Both emits the immutable declaration only
WhichGetter_to_code_immutable_only(self, field_information) ==
    IF self.which = "Mutable"
    THEN MutableGetterOption_to_code(self.mutable, field_information)
    ELSE ImmutableGetterOption_to_code(self.immutable, field_information)

\* impl ToCode for WhichGetter
WhichGetter_to_code(self, field_information) ==
    LET i_code == ImmutableGetterOption_to_code(self.immutable, field_information)
        m_code == MutableGetterOption_to_code(self.mutable, field_information)
    IN  CASE self.which = "Immutable" -> i_code
          [] self.which = "Mutable" -> m_code
          [] self.which = "Both" ->
                IF i_code.tag = "Panic" \/ m_code.tag = "Panic" THEN Panic
                ELSE Ok(i_code.v \o m_code.v)

\* impl ToTokens for GetterOption
GetterOption_to_tokens(self) == WhichGetter_to_code(self.which, self.field)

-----------------------------------------------------------------------------
(* option.rs: GetterOption                                                 *)

\* an attribute of a field: #[path], #[path = ...] or #[path(...)].
\* syn_ok: the tokens between the parentheses parse as Punctuated<Meta, Token![,]>
\* list: the parsed arguments
Attribute(p, m, ok, l) == [path |-> p, meta |-> m, syn_ok |-> ok, list |-> l]

\* macro_utils Field::new(field, index); a syn::Field is [ident, ty, attrs]
Field_new(f, index) == [ident |-> f.ident, ty |-> f.ty, attrs |-> f.attrs, index |-> index]

NoOption == [opt |-> "-", inner |-> "-"]
NoSource == [err |-> "-", e |-> "-", option |-> NoOption]

\* error.rs, OptionParseError
OptionParseError(error, source) == [error |-> error, source |-> source]

\* impl From<GetterParseError<MutableOptionList>> for GetterParseError<ImmutableOptionList>
GetterParseError_into(impl, err) ==
    IF impl = MUTABLE THEN [err EXCEPT !.option = MutableOption(err.option)] ELSE err

\* GetterOption::is_valid_path_attribute
is_valid_path_attribute(path) == \E string \in {IMMUTABLE, MUTABLE} : is_ident(path, string)

\* GetterOption::parse, fn add_option_config
add_option_config(out, which) ==
    IF out.tag = "Some" THEN WhichGetter_add_config(out.v, which) ELSE which

\* the WhichGetter variant built from the accumulator of an attribute
WhichGetter_of(impl, option) == IF impl = IMMUTABLE THEN Immutable(option) ELSE Mutable(option)

\* variant of the loop body: a name-value attribute is skipped like an attribute
\* of another macro
GetterOption_parse_attribute_skipping(out, attribute) ==
    CASE attribute.meta = "List" ->
            IF ~attribute.syn_ok THEN Err(OptionParseError("ExprParseError", NoSource))
            ELSE IF is_valid_path_attribute(attribute.path)
            THEN LET match(impl, option) ==
                     CASE option.tag = "Ok" ->
                             Ok(Some(add_option_config(out, WhichGetter_of(impl, option.v))))
                       [] option.tag = "Err" ->
                             Err(OptionParseError("GetterParseError",
                                                  GetterParseError_into(impl, option.e)))
                       [] option.tag = "Panic" -> Panic
                 IN  match(attribute.path[1],
                           ParseGetterOption_parse(attribute.path[1], attribute.list))
            ELSE Ok(out)
      [] attribute.meta = "Path" ->
            IF is_valid_path_attribute(attribute.path)
            THEN Ok(Some(add_option_config(out,
                        WhichGetter_of(attribute.path[1], Self_default(attribute.path[1])))))
            ELSE Ok(out)
      [] attribute.meta = "NameValue" -> Ok(out)

\* GetterOption::parse: the body of `for attribute in &field.field().attrs`.
\* Ok(out) continues the loop with the new `out`, Err(e) returns e, Panic unwinds.
GetterOption_parse_attribute(out, attribute) ==
    CASE attribute.meta = "List" ->
            IF ~attribute.syn_ok THEN Err(OptionParseError("ExprParseError", NoSource))
            ELSE IF is_valid_path_attribute(attribute.path)
            THEN LET match(impl, option) ==
                     CASE option.tag = "Ok" ->
                             Ok(Some(add_option_config(out, WhichGetter_of(impl, option.v))))
                       [] option.tag = "Err" ->
                             Err(OptionParseError("GetterParseError",
                                                  GetterParseError_into(impl, option.e)))
                       [] option.tag = "Panic" -> Panic
                 IN  match(attribute.path[1],
                           ParseGetterOption_parse(attribute.path[1], attribute.list))
            ELSE Ok(out)
      [] attribute.meta = "Path" ->
            IF is_valid_path_attribute(attribute.path)
            THEN Ok(Some(add_option_config(out,
                        WhichGetter_of(attribute.path[1], Self_default(attribute.path[1])))))
            ELSE Ok(out)
      [] attribute.meta = "NameValue" ->
            IF is_valid_path_attribute(attribute.path)
            THEN Err(OptionParseError("NameValue", NoSource))
            ELSE Ok(out)

\* variant of the loop: the scan goes on after a failure and the last failure met
\* is returned
RECURSIVE GetterOption_parse_loop_last(_, _, _)
GetterOption_parse_loop_last(attrs, i, out) ==
    IF i > Len(attrs) THEN Ok(out)
    ELSE LET match(r) ==
             IF r.tag = "Ok" THEN GetterOption_parse_loop_last(attrs, i + 1, r.v)
             ELSE LET later(rest) == IF rest.tag = "Ok" THEN r ELSE rest
                  IN  later(GetterOption_parse_loop_last(attrs, i + 1, out))
         IN  match(GetterOption_parse_attribute(out, attrs[i]))

\* GetterOption::parse: the loop over the attributes from position i on
RECURSIVE GetterOption_parse_loop(_, _, _)
GetterOption_parse_loop(attrs, i, out) ==
    IF i > Len(attrs) THEN Ok(out)
    ELSE LET match(r) == IF r.tag = "Ok" THEN GetterOption_parse_loop(attrs, i + 1, r.v) ELSE r
         IN  match(GetterOption_parse_attribute(out, attrs[i]))

\* variant of GetterOption::validate: Both fails only when both names are missing
GetterOption_validate_both_missing(self) ==
    LET field_name == self.field.field_name
        name == FunctionName_name(self.which.immutable.option.name, field_name)
        name_mut == FunctionName_name_mut(self.which.mutable.name, field_name)
    IN  CASE self.which.which = "Immutable" /\ name.tag = "None" -> Err("FunctionNameMissing")
          [] self.which.which \in {"Mutable", "Both"} /\ name_mut.tag = "Panic" -> Panic
          [] self.which.which = "Mutable" /\ name_mut.tag = "None" -> Err("FunctionNameMissing")
          [] self.which.which = "Both" /\ name.tag = "None" /\ name_mut.tag = "None" ->
                Err("FunctionNameMissing")
          [] OTHER -> WhichGetter_validate(self.which)

\* variant of GetterOption::validate: the names are not looked at
GetterOption_validate_unnamed(self) == WhichGetter_validate(self.which)

\* GetterOption::validate; name_mut builds an identifier and may panic, in Both it
\* is evaluated only when the immutable name is defined (`||`)
GetterOption_validate(self) ==
    LET field_name == self.field.field_name
        name == FunctionName_name(self.which.immutable.option.name, field_name)
        name_mut == FunctionName_name_mut(self.which.mutable.name, field_name)
    IN  CASE self.which.which = "Immutable" /\ name.tag = "None" -> Err("FunctionNameMissing")
          [] self.which.which = "Mutable" /\ name_mut.tag = "Panic" -> Panic
          [] self.which.which = "Mutable" /\ name_mut.tag = "None" -> Err("FunctionNameMissing")
          [] self.which.which = "Both" /\ name.tag = "None" -> Err("FunctionNameMissing")
          [] self.which.which = "Both" /\ name_mut.tag = "Panic" -> Panic
          [] self.which.which = "Both" /\ name_mut.tag = "None" -> Err("FunctionNameMissing")
          [] OTHER -> WhichGetter_validate(self.which)

\* GetterOption::new
GetterOption_new(field_information, which) == [field |-> field_information, which |-> which]

\* GetterOption::parse(field)
GetterOption_parse(f) ==
    LET validated(getter_option_, valid) ==
            IF valid.tag = "Err"
            THEN Err(OptionParseError("OptionValidationError", [NoSource EXCEPT !.err = valid.e]))
            ELSE IF valid.tag = "Panic" THEN Panic
            ELSE Ok(getter_option_)
        built(getter_option_) == validated(getter_option_, GetterOption_validate(getter_option_))
        match(scan) ==
            IF scan.tag # "Ok" THEN scan
            ELSE IF scan.v.tag = "None" THEN Err(OptionParseError("NotFound", NoSource))
            ELSE built(GetterOption_new(FieldInformation_from_field(f), scan.v.v))
    IN  match(GetterOption_parse_loop(f.attrs, 1, None))

-----------------------------------------------------------------------------
(* Inputs.                                                                 *)

\* bounds of the inputs
MaxArgs == 3
MaxAttrs == 3
MaxFields == 3

Word(w) == <<w>>

\* arguments of an attribute, as parsed by syn
ArgPublic == MetaPath(Word("public"))
ArgPrivate == MetaPath(Word("private"))
ArgVisibilityPublic == MetaNameValue(Word("visibility"), LitStr("public"))
ArgVisibilityListPrivate == MetaList(Word("visibility"), <<TokIdent("private")>>)
ArgNameA == MetaNameValue(Word("name"), LitStr("a"))
ArgNameB == MetaNameValue(Word("name"), LitStr("b"))
ArgNameListA == MetaList(Word("name"), <<TokIdent("a")>>)
ArgConst == MetaPath(Word("Const"))
ArgConstFalse == MetaNameValue(Word("Const"), LitBool(FALSE))
ArgByCopy == MetaPath(Word("by_copy"))
ArgGetterTyCopy == MetaNameValue(Word("getter_ty"), LitStr("copy"))
ArgGetterTyClone == MetaList(Word("getter_ty"), <<TokIdent("Clone")>>)
ArgGetterTyRef == MetaNameValue(Word("getter_ty"), LitStr("ref"))
ArgSelfTyValue == MetaNameValue(Word("self_ty"), LitStr("value"))
ArgFoo == MetaPath(Word("foo"))
ArgVisibilityInt == MetaNameValue(Word("visibility"), LitInt("1"))
ArgNameInvalid == MetaNameValue(Word("name"), LitStr("1x"))
ArgSelfTyInt == MetaNameValue(Word("self_ty"), LitInt("1"))

Bare(w) == MetaPath(Word(w))
Assign(left, right) == MetaNameValue(Word(left), LitStr(right))
AssignBool(left, b) == MetaNameValue(Word(left), LitBool(b))
Call(left, w) == MetaList(Word(left), <<TokIdent(w)>>)

ConstSpellings == {"const", "Const", "constant", "Constant"}

\* every left-hand spelling of the five aspects
TriggerSpellings ==
    {"visibility", "name"} \cup ConstSpellings
    \cup {"getter_ty", "getter_type", "Getter_ty", "Getter_type"}
    \cup {"self", "self_ty", "self_type", "Self", "Self_ty", "Self_type"}

\* the arguments of SpecArg: the spellings of every aspect in the three forms,
\* values no aspect accepts, and paths that are not a single identifier
ArgSpellings ==
    {Bare(w) : w \in {"public", "Public", "pub", "Pub", "private", "crate", "by_ref",
                       "by_value", "by_copy", "copy", "Copy", "by_clone", "clone",
                       "Clone", "ref", "value", "name", "visibility", "foo"}
                       \cup ConstSpellings}
    \cup {Assign("visibility", v) : v \in {"public", "Public", "pub", "private", "crate",
                                            "pub(super)", "misformed"}}
    \cup {Call("visibility", v) : v \in {"public", "Public", "private"}}
    \cup {Assign("name", v) : v \in {"a", "b", "1x"}}
    \cup {Assign(k, v) : k \in ConstSpellings, v \in {"true", "false", "misformed"}}
    \cup {AssignBool(k, b) : k \in ConstSpellings, b \in BOOLEAN}
    \cup {Call("Const", v) : v \in {"constant", "misformed"}}
    \cup {Assign("getter_ty", v) : v \in {"by_ref", "ref", "copy", "Clone"}}
    \cup {Call("Getter_type", v) : v \in {"by_value", "misformed"}}
    \cup {Assign("self_ty", v) : v \in {"value", "ref", "move", "misformed"}}
    \cup {Call("Self_type", v) : v \in {"value", "by_ref"}}
    \cup {Bare(w) : w \in TriggerSpellings}
    \cup {Assign(k, "copy") : k \in TriggerSpellings}
    \cup {Call(k, "copy") : k \in TriggerSpellings}
    \cup {Assign("foo", "bar"), Call("foo", "bar"),
          ArgVisibilityInt, MetaNameValue(Word("self_ty"), ExprPath("value")),
          MetaList(Word("getter_ty"), <<TokLit("copy")>>),
          MetaPath(<<"not", "ident">>), MetaNameValue(<<"not", "ident">>, LitStr("public")),
          MetaList(<<"not", "ident">>, <<TokIdent("public")>>),
          MetaList(<<"not", "an", "ident">>, <<TokLit("1")>>)}

\* the accumulators add_config is called on in SpecArg: the default one and one
\* on which every aspect was set before
Configs(impl) ==
    LET set == [visibility |-> VisCrate(None), name |-> FunctionName_new(Some("b"))]
    IN  IF impl = IMMUTABLE
        THEN {ImmutableGetterOption_default,
              [option |-> set, const_ty |-> "Constant", ty |-> "Clone", self_ty |-> "Ref"]}
        ELSE {MutableGetterOption_default, set}

\* the arguments the lists of SpecParse are made of
ParseMetas ==
    {ArgPublic, ArgPrivate, ArgVisibilityPublic, ArgVisibilityListPrivate,
     ArgNameA, ArgNameB, ArgNameListA, ArgConst, ArgConstFalse, ArgByCopy,
     ArgSelfTyValue, ArgFoo, ArgVisibilityInt, ArgNameInvalid, ArgSelfTyInt}

SeqsUpTo(S, n) == UNION {[1..k -> S] : k \in 0..n}

\* attributes of a field
AttrGet == Attribute(Word("get"), "Path", TRUE, <<>>)
AttrGetMut == Attribute(Word("get_mut"), "Path", TRUE, <<>>)
AttrGetList(l) == Attribute(Word("get"), "List", TRUE, l)
AttrGetMutList(l) == Attribute(Word("get_mut"), "List", TRUE, l)
AttrGetNameValue == Attribute(Word("get"), "NameValue", TRUE, <<>>)
AttrGetMutNameValue == Attribute(Word("get_mut"), "NameValue", TRUE, <<>>)
AttrGetMutSynError == Attribute(Word("get_mut"), "List", FALSE, <<>>)
AttrDoc == Attribute(Word("doc"), "NameValue", TRUE, <<>>)
AttrOtherList == Attribute(Word("serde"), "List", TRUE, <<ArgNameA>>)
\* a list attribute of another macro whose tokens are not a list of Meta, `#[error("..")]`
AttrOtherSynError == Attribute(Word("error"), "List", FALSE, <<>>)

\* the attributes the fields of SpecField are made of
FieldAttributes ==
    {AttrGet, AttrGetMut, AttrGetList(<<>>), AttrGetMutList(<<>>),
     AttrGetList(<<ArgSelfTyValue, ArgGetterTyRef>>),
     AttrGetList(<<ArgPublic>>), AttrGetList(<<ArgNameA>>), AttrGetList(<<ArgNameB, ArgConst>>),
     AttrGetList(<<ArgSelfTyValue>>), AttrGetList(<<ArgSelfTyValue, ArgGetterTyCopy>>),
     AttrGetList(<<ArgNameA, ArgNameB>>), AttrGetList(<<ArgNameInvalid>>),
     AttrGetList(<<ArgVisibilityInt, ArgNameInvalid>>),
     AttrGetMutList(<<ArgPublic>>), AttrGetMutList(<<ArgNameB>>),
     AttrGetNameValue, AttrGetMutNameValue, AttrGetMutSynError, AttrDoc, AttrOtherList,
     AttrOtherSynError}

\* a syn::Field: ident (None in a tuple struct), type and attributes
SynField(ident, ty, attrs) == [ident |-> ident, ty |-> ty, attrs |-> attrs]

\* the fields of SpecField: three shapes, each with every list of at most n attributes
FieldInputs(n) ==
    {Field_new(SynField(shape[1], shape[2], attrs), shape[3]) :
        shape \in {<<Some("f"), "usize", 0>>, <<Some("r#type"), "String", 1>>,
                   <<None, "usize", 0>>},
        attrs \in SeqsUpTo(FieldAttributes, n)}

\* the attribute lists of the fields of a struct in Spec
DeriveAttrs ==
    {<<>>, <<AttrGet>>, <<AttrGetMut>>, <<AttrGet, AttrGetMut>>, <<AttrGetNameValue>>,
     <<AttrGetList(<<ArgNameA>>)>>, <<AttrGetList(<<ArgNameInvalid>>)>>,
     <<AttrGetList(<<ArgSelfTyValue>>)>>}

\* identifier and type of the i-th field of a struct with named fields
FieldIdents == <<"f", "g", "h", "i">>
FieldTypes == <<"usize", "String", "u32", "char">>

\* the fields of a struct: named (`struct S { .. }`) or unnamed (`struct S( .. )`)
StructFields(named, attrs_of) ==
    [i \in 1..Len(attrs_of) |->
        SynField(IF named THEN Some(FieldIdents[i]) ELSE None, FieldTypes[i], attrs_of[i])]

\* the DeriveInput: data is Struct, Enum or Union; fields is Named, Unnamed or Unit
DeriveInput(data, fields, list) == [data |-> data, fields |-> fields, list |-> list]

DeriveInputs ==
    {DeriveInput("Struct", "Named", StructFields(TRUE, a)) : a \in SeqsUpTo(DeriveAttrs, MaxFields)}
    \cup {DeriveInput("Struct", "Unnamed", StructFields(FALSE, a)) :
            a \in SeqsUpTo(DeriveAttrs, MaxFields)}
    \cup {DeriveInput("Struct", "Unit", <<>>), DeriveInput("Enum", "-", <<>>),
          DeriveInput("Union", "-", <<>>)}

-----------------------------------------------------------------------------
(* SpecParse: ParseGetterOption::parse on an argument list                 *)

IterIdle == coordinate = Idle /\ iter = Idle /\ returned = <<>>
NumberIdle == numbers = Idle /\ gcd_ret = Idle /\ lcm_ret = Idle
LibIdle == IterIdle /\ NumberIdle
ArgIdle == start = Idle /\ added = Idle /\ fragments = Idle /\ recognized = Idle
ParseIdle == accumulator = "-" /\ tokens = <<>> /\ parsed = Idle /\ ArgIdle
FieldIdle == field = Idle /\ getter_option = Idle /\ code = Idle
DeriveIdle ==
    /\ pc = "idle" /\ input = Idle /\ field_index = 0
    /\ vec = <<>> /\ log = <<>> /\ output = Idle

InitParse ==
    /\ accumulator \in {IMMUTABLE, MUTABLE}
    /\ tokens \in SeqsUpTo(ParseMetas, MaxArgs)
    /\ parsed = Pending
    /\ ArgIdle
    /\ FieldIdle
    /\ DeriveIdle
    /\ LibIdle

\* call ParseGetterOption::parse(tokens)
Parse ==
    /\ parsed = Pending
    /\ parsed' = ParseGetterOption_parse(accumulator, tokens)
    /\ UNCHANGED <<accumulator, tokens, start, added, fragments, recognized, fieldVars, deriveVars, libVars>>

NextParse == Parse

SpecParse == InitParse /\ [][NextParse]_vars

-----------------------------------------------------------------------------
(* SpecOption: ParseOption::parse_option of each of the five aspect types  *)
(* on one argument (tokens[1])                                             *)

\* the types implementing ParseOptionUtils
Aspects == {"Visibility", "FunctionName", "ConstTy", "GetterTy", "SelfTy"}

InitOption ==
    /\ tokens \in {<<meta>> : meta \in ArgSpellings}
    /\ recognized = [Self \in Aspects |-> Pending]
    /\ accumulator = "-"
    /\ parsed = Idle
    /\ start = Idle
    /\ added = Idle
    /\ fragments = Idle
    /\ FieldIdle
    /\ DeriveIdle
    /\ LibIdle

\* call Self::parse_option(&tokens[1]) for one of the aspect types
ParseOption ==
    \E Self \in Aspects :
        /\ recognized[Self] = Pending
        /\ recognized' = [recognized EXCEPT ![Self] = parse_option_utils(Self, tokens[1])]
        /\ UNCHANGED <<accumulator, tokens, parsed, start, added, fragments,
                       fieldVars, deriveVars, libVars>>

NextOption == ParseOption

SpecOption == InitOption /\ [][NextOption]_vars

-----------------------------------------------------------------------------
(* SpecArg: ParseGetterOption::add_config on one argument (tokens[1]),     *)
(* then to_code on the accumulator for the named field `f: usize`          *)

\* to_code of the two implementations of ParseGetterOption
Self_to_code(impl, self, field_information) ==
    IF impl = IMMUTABLE
    THEN ImmutableGetterOption_to_code(self, field_information)
    ELSE MutableGetterOption_to_code(self, field_information)

FieldInformationF == FieldInformation_from_field([ident |-> Some("f"), index |-> 0, ty |-> "usize"])

InitArg ==
    /\ accumulator \in {IMMUTABLE, MUTABLE}
    /\ tokens \in {<<meta>> : meta \in ArgSpellings}
    /\ start \in Configs(accumulator)
    /\ added = Pending
    /\ fragments = Pending
    /\ parsed = Idle
    /\ recognized = Idle
    /\ FieldIdle
    /\ DeriveIdle
    /\ LibIdle

\* call start.add_config(&tokens[1])
AddConfig ==
    /\ added = Pending
    /\ added' = Self_add_config(accumulator, start, tokens[1])
    /\ UNCHANGED <<accumulator, tokens, parsed, start, fragments, recognized, fieldVars, deriveVars, libVars>>

\* call to_code on the accumulator left by add_config
ToCode ==
    /\ added # Pending
    /\ added.res.tag # "Panic"
    /\ fragments = Pending
    /\ fragments' = Self_to_code(accumulator, added.self, FieldInformationF)
    /\ UNCHANGED <<accumulator, tokens, parsed, start, added, recognized, fieldVars, deriveVars, libVars>>

NextArg == AddConfig \/ ToCode

SpecArg == InitArg /\ [][NextArg]_vars

-----------------------------------------------------------------------------
(* SpecField: GetterOption::parse on one field, then the emission          *)

InitField ==
    /\ field \in FieldInputs(MaxAttrs)
    /\ getter_option = Pending
    /\ code = Pending
    /\ ParseIdle
    /\ DeriveIdle
    /\ LibIdle

\* call GetterOption::parse(field)
Resolve ==
    /\ getter_option = Pending
    /\ getter_option' = GetterOption_parse(field)
    /\ UNCHANGED <<field, code, parseVars, deriveVars, libVars>>

\* call to_tokens on the returned GetterOption
Emit ==
    /\ getter_option.tag = "Ok"
    /\ code = Pending
    /\ code' = GetterOption_to_tokens(getter_option.v)
    /\ UNCHANGED <<field, getter_option, parseVars, deriveVars, libVars>>

NextField == Resolve \/ Emit

SpecField == InitField /\ [][NextField]_vars

-----------------------------------------------------------------------------
(* error.rs: Display of the errors                                         *)

\* Display of MutableOptionList and ImmutableOptionList
OptionList_display(option) ==
    CASE option.opt = "MutableOption" /\ option.inner = "Visibility" -> "visibility"
      [] option.opt = "MutableOption" /\ option.inner = "IdentOption" -> "name"
      [] option.opt = "ConstTy" -> "const"
      [] option.opt = "GetterTy" -> "getter type"
      [] option.opt = "SelfTy" -> "self type"

\* Display of UnacceptableParseError
UnacceptableParseError_display(err) ==
    CASE err = "RightHandValueInvalid" -> "right hand value in assignment is misformed or invalid"
      [] err = "IdentParseError" -> "syn ident parse error"
      [] err = "LeftHandSideValuePathIsNotIdent" ->
            "the left hand side path in an assignment has multiple section and is therefore not a ident"
      [] err = "RightHandNameValueExprNotLitString" ->
            "the right hand side value is not a literal string when it is expected"

\* Display of GetterParseError
GetterParseError_display(err) ==
    IF err.err = "FieldAttributeOptionSetMultipleTimes"
    THEN <<OptionList_display(err.option), " is set multiple times">>
    ELSE <<"got error ", UnacceptableParseError_display(err.e),
           " while parsing option ", OptionList_display(err.option)>>

\* Display of OptionValidationError
OptionValidationError_display(err) ==
    IF err = "FunctionNameMissing"
    THEN <<"name = # is missing and there is no default name for tuple struct">>
    ELSE <<"self_ty is value but getter_ty is reference which is not valid">>

\* Display of OptionParseError
OptionParseError_display(err) ==
    CASE err.error = "NameValue" ->
            <<"field attribute is not supported in name value mode, please refer to the documentation">>
      [] err.error = "NotFound" -> <<"attribute #[get] or #[get_mut] not found">>
      [] err.error = "ExprParseError" -> <<"syn error">>
      [] err.error = "GetterParseError" -> GetterParseError_display(err.source)
      [] err.error = "OptionValidationError" -> OptionValidationError_display(err.source.err)

-----------------------------------------------------------------------------
(* mod.rs: derive                                                          *)

\* quote_compile_error!(message) returned by derive
CompileError(message) == [out |-> "compile_error", msg |-> message, items |-> <<>>]

\* the generated `impl Name { #(#vec)* }`
ImplBlock(items) == [out |-> "impl", msg |-> <<>>, items |-> items]

\* an element of vec: the declarations of a field, or compile_error!(message)
ItemCode(decls) == [item |-> "code", msg |-> <<>>, decls |-> decls]
ItemCompileError(message) == [item |-> "compile_error", msg |-> message, decls |-> <<>>]

FIELDLESS == <<"The trait getter cannot be derive on fieldless struct">>
NO_FIELD == <<"no field has attribute #[get] or #[get_mut]">>

\* variant of derive_field: NotFound is reported like the other errors
derive_field_reporting_not_found(f, index) ==
    LET to_code(tokens_of) ==
            IF tokens_of.tag = "Panic" THEN Panic ELSE Some(ItemCode(tokens_of.v))
        match(option) ==
            CASE option.tag = "Panic" -> Panic
              [] option.tag = "Ok" -> to_code(GetterOption_to_tokens(option.v))
              [] OTHER ->
                    Some(ItemCompileError(<<"error parsing option: ">>
                                              \o OptionParseError_display(option.e)))
    IN  match(GetterOption_parse(Field_new(f, index)))

\* the closure of filter_map: Some(tokens), None, or a panic.  mod.rs names the
\* error type AttributeParseError and passes the attributes; the resolver of
\* option.rs is GetterOption::parse(Field), its error OptionParseError, and the
\* tokens are those of impl ToTokens for GetterOption.
derive_field(f, index) ==
    LET to_code(tokens_of) ==
            IF tokens_of.tag = "Panic" THEN Panic ELSE Some(ItemCode(tokens_of.v))
        match(option) ==
            CASE option.tag = "Panic" -> Panic
              [] option.tag = "Ok" -> to_code(GetterOption_to_tokens(option.v))
              [] option.tag = "Err" /\ option.e.error = "NotFound" -> None
              [] OTHER ->
                    Some(ItemCompileError(<<"error parsing option: ">>
                                              \o OptionParseError_display(option.e)))
    IN  match(GetterOption_parse(Field_new(f, index)))

Init ==
    /\ pc = "match_data"
    /\ input \in DeriveInputs
    /\ field_index = 0
    /\ vec = <<>>
    /\ log = <<>>
    /\ output = Pending
    /\ ParseIdle
    /\ FieldIdle
    /\ LibIdle

\* `match input.data`, `match data.fields`: the early returns and the iterator
MatchData ==
    /\ pc = "match_data"
    /\ CASE input.data = "Enum" ->
                pc' = "done" /\ output' = CompileError(<<"cannot derive getter for enums yet">>)
         [] input.data = "Union" ->
                pc' = "done" /\ output' = CompileError(<<"cannot derive getter for unions yet">>)
         [] input.data = "Struct" /\ input.fields = "Unit" ->
                pc' = "done" /\ output' = CompileError(FIELDLESS)
         [] OTHER -> pc' = "filter_map" /\ output' = output
    /\ UNCHANGED <<input, field_index, vec, log, parseVars, fieldVars, libVars>>

\* one call of the filter_map closure on the next field of the iterator
FilterMap ==
    /\ pc = "filter_map"
    /\ field_index < Len(input.list)
    /\ LET closure(f, r) ==
               /\ log' = Append(log, GetterOption_parse(Field_new(f, field_index)))
               /\ CASE r.tag = "Panic" -> pc' = "panicked" /\ vec' = vec /\ output' = Panic
                    [] r.tag = "Some" -> pc' = pc /\ vec' = Append(vec, r.v) /\ output' = output
                    [] r.tag = "None" -> pc' = pc /\ vec' = vec /\ output' = output
       IN  closure(input.list[field_index + 1],
                   derive_field(input.list[field_index + 1], field_index))
    /\ field_index' = field_index + 1
    /\ UNCHANGED <<input, parseVars, fieldVars, libVars>>

\* the iterator is exhausted: collect, then build the output from vec
Collect ==
    /\ pc = "filter_map"
    /\ field_index = Len(input.list)
    /\ pc' = "done"
    /\ output' = IF vec = <<>> THEN CompileError(NO_FIELD) ELSE ImplBlock(vec)
    /\ UNCHANGED <<input, field_index, vec, log, parseVars, fieldVars, libVars>>

Next == MatchData \/ FilterMap \/ Collect

Spec == Init /\ [][Next]_vars

-----------------------------------------------------------------------------
(* utils-lib, coordinate/axis_2d.rs and coordinate/mod.rs                  *)

Vertical == "Vertical"
Horizontal == "Horizontal"

\* Axis2D::AXIS
Axis2D_AXIS == <<Vertical, Horizontal>>

Axis2D_to_index(self) == IF self = Vertical THEN 0 ELSE 1

\* Axis2D::next: the next index of the front of the iterator
Axis2D_next(self) == IF self = Vertical THEN Some(Horizontal) ELSE None

\* variant of next_back: the back starts on the first axis
Axis2D_next_back_from_first(val) ==
    CASE val = Some(Vertical) -> None
      [] val = Some(Horizontal) -> Some(Vertical)
      [] val = None -> Some(Vertical)

\* Axis2D::next_back: the previous index of the back of the iterator
Axis2D_next_back(val) ==
    CASE val = Some(Vertical) -> None
      [] val = Some(Horizontal) -> Some(Vertical)
      [] val = None -> Some(Horizontal)

\* variant of size_hint: None counts as the index past Horizontal less one
Axis2D_size_hint_short(val) == IF val.tag = "Some" THEN Axis2D_to_index(val.v) ELSE 1

\* Axis2D::size_hint
Axis2D_size_hint(val) == IF val.tag = "Some" THEN Axis2D_to_index(val.v) ELSE 2

Coordinate_new(x, y) == [x |-> x, y |-> y]

\* Coordinate::get, behind Index<Axis2D>
Coordinate_get(self, axis) == IF axis = Vertical THEN self.x ELSE self.y

\* Option::take on self[axis], behind IndexMut<Axis2D>: None is left behind
Coordinate_take(self, axis) ==
    IF axis = Vertical THEN [self EXCEPT !.x = None] ELSE [self EXCEPT !.y = None]

-----------------------------------------------------------------------------
(* utils-lib, coordinate/iterator.rs.  A method returns the iterator after *)
(* the call and the returned value; a failed expect or debug_assert is     *)
(* Panic, a subtraction below zero is Underflow (a panic with overflow     *)
(* checks, a wrapped value without).                                       *)

Underflow == [tag |-> "Underflow"]

\* impl From<Coordinate<T>> for Coordinate<Option<T>>
Coordinate_from(coord) == Coordinate_new(Some(coord.x), Some(coord.y))

\* CoordinateIterator::new
CoordinateIterator_new(coord) ==
    [coord |-> Coordinate_from(coord), front |-> Some(Axis2D_AXIS[1]), back |-> None]

\* Iterator::next
CoordinateIterator_next(self) ==
    IF self.front = self.back THEN [self |-> self, ret |-> None]
    ELSE IF self.front = None THEN [self |-> self, ret |-> Panic]
    ELSE LET front == self.front.v
             return_val == Coordinate_get(self.coord, front)
         IN  IF return_val = None
             THEN [self |-> [self EXCEPT !.coord = Coordinate_take(self.coord, front)],
                   ret |-> Panic]
             ELSE [self |-> [self EXCEPT !.coord = Coordinate_take(self.coord, front),
                                         !.front = Axis2D_next(front)],
                   ret |-> return_val]

\* Iterator::size_hint
CoordinateIterator_size_hint(self) ==
    LET sub(back, front) ==
            IF back < front THEN Underflow
            ELSE [tag |-> "Ok", lower |-> back - front, upper |-> Some(back - front)]
    IN  sub(Axis2D_size_hint(self.back), Axis2D_size_hint(self.front))

\* DoubleEndedIterator::next_back
CoordinateIterator_next_back(self) ==
    IF self.front = self.back THEN [self |-> self, ret |-> None]
    ELSE LET moved == [self EXCEPT !.back = Axis2D_next_back(self.back)]
         IN  IF moved.back = None THEN [self |-> moved, ret |-> Panic]
             ELSE LET return_val == Coordinate_get(moved.coord, moved.back.v)
                  IN  IF return_val = None
                      THEN [self |-> [moved EXCEPT
                                        !.coord = Coordinate_take(moved.coord, moved.back.v)],
                            ret |-> Panic]
                      ELSE [self |-> [moved EXCEPT
                                        !.coord = Coordinate_take(moved.coord, moved.back.v)],
                            ret |-> return_val]

-----------------------------------------------------------------------------
(* SpecIter: an iterator built from Coordinate(x, y), then any sequence of *)
(* at most MaxCalls calls of next, next_back and size_hint                 *)

MaxCalls == 4

\* the elements of the coordinates
Elements == {"a", "b"}

Called(call, ret) == [call |-> call, ret |-> ret]

InitIter ==
    /\ coordinate \in {Coordinate_new(x, y) : x \in Elements, y \in Elements}
    /\ iter = CoordinateIterator_new(coordinate)
    /\ returned = <<>>
    /\ NumberIdle
    /\ ParseIdle
    /\ FieldIdle
    /\ DeriveIdle

\* iter.next()
IterNext ==
    /\ Len(returned) < MaxCalls
    /\ \A i \in 1..Len(returned) : returned[i].ret # Panic
    /\ iter' = CoordinateIterator_next(iter).self
    /\ returned' = Append(returned, Called("next", CoordinateIterator_next(iter).ret))
    /\ UNCHANGED <<coordinate, numberVars, parseVars, fieldVars, deriveVars>>

\* iter.next_back()
IterNextBack ==
    /\ Len(returned) < MaxCalls
    /\ \A i \in 1..Len(returned) : returned[i].ret # Panic
    /\ iter' = CoordinateIterator_next_back(iter).self
    /\ returned' = Append(returned, Called("next_back", CoordinateIterator_next_back(iter).ret))
    /\ UNCHANGED <<coordinate, numberVars, parseVars, fieldVars, deriveVars>>

\* iter.size_hint()
IterSizeHint ==
    /\ Len(returned) < MaxCalls
    /\ \A i \in 1..Len(returned) : returned[i].ret # Panic
    /\ returned' = Append(returned, Called("size_hint", CoordinateIterator_size_hint(iter)))
    /\ UNCHANGED <<coordinate, iter, numberVars, parseVars, fieldVars, deriveVars>>

NextIter == IterNext \/ IterNextBack \/ IterSizeHint

SpecIter == InitIter /\ [][NextIter]_vars

-----------------------------------------------------------------------------
(* utils-lib, number/function.rs, on an unsigned type of NumberBits bits.  *)
(* `*` overflows above NumberMax: a panic with overflow checks, the value  *)
(* modulo 2^NumberBits without.                                            *)

NumberBits == 6
NumberModulus == 2 ^ NumberBits
NumberMax == NumberModulus - 1

\* gcd(n1, n2)
RECURSIVE gcd(_, _)
gcd(n1, n2) ==
    IF n1 = 0 \/ n2 = 0 THEN 0
    ELSE IF n1 = 1 \/ n2 = 1 THEN 1
    ELSE CASE n1 = n2 -> n1
           [] n1 > n2 -> gcd(n1 - n2, n2)
           [] n1 < n2 -> gcd(n1, n2 - n1)

\* Mul::mul of the unsigned type
Number_mul(a, b, overflow_checks) ==
    IF a * b > NumberMax
    THEN IF overflow_checks THEN Panic ELSE Ok((a * b) % NumberModulus)
    ELSE Ok(a * b)

\* lcm(n1, n2): n1 * n2 / gcd(n1, n2)
lcm(n1, n2, overflow_checks) ==
    IF n1 = 0 \/ n2 = 0 THEN Ok(0)
    ELSE LET div(product) ==
                 IF product.tag = "Panic" THEN Panic ELSE Ok(product.v \div gcd(n1, n2))
         IN  div(Number_mul(n1, n2, overflow_checks))

-----------------------------------------------------------------------------
(* SpecNumber: gcd and lcm called on a pair of numbers                     *)

InitNumber ==
    /\ numbers \in [n1 : 0..NumberMax, n2 : 0..NumberMax, overflow_checks : BOOLEAN]
    /\ gcd_ret = Pending
    /\ lcm_ret = Pending
    /\ IterIdle
    /\ ParseIdle
    /\ FieldIdle
    /\ DeriveIdle

\* call gcd(n1, n2)
Gcd ==
    /\ gcd_ret = Pending
    /\ gcd_ret' = Ok(gcd(numbers.n1, numbers.n2))
    /\ UNCHANGED <<numbers, lcm_ret, iterVars, parseVars, fieldVars, deriveVars>>

\* call lcm(n1, n2)
Lcm ==
    /\ lcm_ret = Pending
    /\ lcm_ret' = lcm(numbers.n1, numbers.n2, numbers.overflow_checks)
    /\ UNCHANGED <<numbers, gcd_ret, iterVars, parseVars, fieldVars, deriveVars>>

NextNumber == Gcd \/ Lcm

SpecNumber == InitNumber /\ [][NextNumber]_vars

-----------------------------------------------------------------------------
(* Properties of ParseGetterOption::parse (SpecParse)                      *)

\* what add_config returns for one argument taken alone
ResolvedAspect(impl, meta) == Self_add_config(impl, Self_default(impl), meta).res

\* two arguments resolve to the same aspect of the accumulator
SameAspect(impl, m1, m2) ==
    /\ ResolvedAspect(impl, m1).tag = "Ok"
    /\ ResolvedAspect(impl, m2).tag = "Ok"
    /\ ResolvedAspect(impl, m1).option = ResolvedAspect(impl, m2).option

\* argument j of the list resolves to the aspect of an earlier argument
IsRepeat(impl, toks, j) == \E i \in 1..(j - 1) : SameAspect(impl, toks[i], toks[j])

DuplicateError(impl, meta) ==
    Err(FieldAttributeOptionSetMultipleTimes(ResolvedAspect(impl, meta).option))

\* C1 as stated: for both accumulators, an argument list in which two arguments
\* resolve to the same aspect, whatever their shapes and values, makes parse fail
\* with the duplicate-aspect error naming that aspect.
C1_DuplicateAlwaysReported ==
    parsed # Pending =>
        \A i \in 1..Len(tokens), j \in 1..Len(tokens) :
            (i < j /\ SameAspect(accumulator, tokens[i], tokens[j]))
                => parsed = DuplicateError(accumulator, tokens[j])

\* C1 amended: for both accumulators, a list in which two arguments resolve to
\* the same aspect never yields a config; the error is the duplicate-aspect
\* error naming the aspect of the first argument that repeats an aspect, provided
\* every argument before that one matched an aspect or was an acceptable failure.
C1_DuplicateRejected ==
    parsed # Pending =>
        \A j \in 1..Len(tokens) :
            IsRepeat(accumulator, tokens, j) =>
                /\ parsed.tag # "Ok"
                /\ (\A k \in 1..(j - 1) :
                        /\ ~IsRepeat(accumulator, tokens, k)
                        /\ ResolvedAspect(accumulator, tokens[k]).tag \in {"Ok", "Acceptable"})
                    => parsed = DuplicateError(accumulator, tokens[j])

\* C1 witness: two arguments of different shapes resolving to the same aspect
\* were parsed and the duplicate-aspect error was returned
C1_Witness ==
    /\ parsed.tag = "Err"
    /\ parsed.e.err = "FieldAttributeOptionSetMultipleTimes"
    /\ \E i \in 1..Len(tokens), j \in 1..Len(tokens) :
            /\ i < j
            /\ SameAspect(accumulator, tokens[i], tokens[j])
            /\ tokens[i].meta # tokens[j].meta
            /\ tokens[i] # tokens[j]

-----------------------------------------------------------------------------
(* Properties of GetterOption::parse and of the emission (SpecField)       *)

\* the attribute is a bare or list attribute named `get` / `get_mut`
IsKind(attribute, impl) == is_ident(attribute.path, impl) /\ attribute.meta \in {"Path", "List"}

\* positions of the attributes of one accessor kind, and the last of them
KindPositions(attrs, impl) == {i \in 1..Len(attrs) : IsKind(attrs[i], impl)}
LastPosition(positions) == CHOOSE i \in positions : \A k \in positions : k <= i

\* the config an attribute of an accessor kind parses to, taken alone
ConfigOf(attribute) ==
    IF attribute.meta = "Path" THEN Self_default(attribute.path[1])
    ELSE ParseGetterOption_parse(attribute.path[1], attribute.list).v

\* the selection has an immutable / a mutable accessor
SelectsImmutable(which) == which.which \in {"Immutable", "Both"}
SelectsMutable(which) == which.which \in {"Mutable", "Both"}

\* C2: when every attribute of the field parses, the selection has the immutable
\* accessor iff a `get` attribute is present and the mutable one iff a `get_mut`
\* attribute is present, and each config is exactly the one parsed from the last
\* attribute of its kind.
C2_LastAttributeWins ==
    getter_option.tag = "Ok" =>
        LET which == getter_option.v.which
            gets == KindPositions(field.attrs, IMMUTABLE)
            muts == KindPositions(field.attrs, MUTABLE)
        IN  /\ SelectsImmutable(which) <=> gets # {}
            /\ SelectsMutable(which) <=> muts # {}
            /\ gets # {} => which.immutable = ConfigOf(field.attrs[LastPosition(gets)])
            /\ muts # {} => which.mutable = ConfigOf(field.attrs[LastPosition(muts)])

\* C2 witness: two `get` attributes naming the accessor differently and a
\* `get_mut` attribute resolved to Both, the immutable accessor named by the second
C2_Witness ==
    /\ getter_option.tag = "Ok"
    /\ field.attrs = <<AttrGetList(<<ArgNameA>>), AttrGetMut, AttrGetList(<<ArgNameB, ArgConst>>)>>
    /\ getter_option.v.which.which = "Both"
    /\ getter_option.v.which.immutable.option.name = FunctionName_new(Some("b"))

\* the options an attribute sets: the aspects its arguments match
OptionsSet(attribute) ==
    IF attribute.meta = "Path" THEN {}
    ELSE {ResolvedAspect(attribute.path[1], attribute.list[k]).option :
            k \in {n \in 1..Len(attribute.list) :
                     ResolvedAspect(attribute.path[1], attribute.list[n]).tag = "Ok"}}

AllOptions(impl) ==
    IF impl = IMMUTABLE
    THEN {MutableOption("Visibility"), MutableOption("IdentOption"), ImmutableOption("ConstTy"),
          ImmutableOption("GetterTy"), ImmutableOption("SelfTy")}
    ELSE {"Visibility", "IdentOption"}

\* the value of an option in a config of an accessor kind
OptionValue(impl, config, option) ==
    IF impl = MUTABLE
    THEN IF option = "Visibility" THEN <<config.visibility>> ELSE <<config.name>>
    ELSE CASE option = MutableOption("Visibility") -> <<config.option.visibility>>
           [] option = MutableOption("IdentOption") -> <<config.option.name>>
           [] option = ImmutableOption("ConstTy") -> <<config.const_ty>>
           [] option = ImmutableOption("GetterTy") -> <<config.ty>>
           [] option = ImmutableOption("SelfTy") -> <<config.self_ty>>

\* the config of an accessor kind in a selection
ConfigIn(which, impl) == IF impl = IMMUTABLE THEN which.immutable ELSE which.mutable

\* C3 as stated: an option set by an attribute and by no later attribute of the
\* same kind keeps the value that attribute gave it (distinct options accumulate).
C3_OptionsAccumulate ==
    getter_option.tag = "Ok" =>
        \A impl \in {IMMUTABLE, MUTABLE} :
            \A i \in KindPositions(field.attrs, impl) :
                \A option \in OptionsSet(field.attrs[i]) :
                    (\A k \in KindPositions(field.attrs, impl) :
                        k > i => option \notin OptionsSet(field.attrs[k]))
                    => OptionValue(impl, ConfigIn(getter_option.v.which, impl), option)
                        = OptionValue(impl, ConfigOf(field.attrs[i]), option)

\* C3 amended: a later attribute replaces the earlier attributes of its kind as a
\* whole: an option the last attribute of a kind does not set has its default
\* value, whatever the earlier attributes of that kind set.
C3_LaterAttributeReplaces ==
    getter_option.tag = "Ok" =>
        \A impl \in {IMMUTABLE, MUTABLE} :
            LET positions == KindPositions(field.attrs, impl)
            IN  positions # {} =>
                    \A option \in AllOptions(impl) \ OptionsSet(field.attrs[LastPosition(positions)]) :
                        OptionValue(impl, ConfigIn(getter_option.v.which, impl), option)
                            = OptionValue(impl, Self_default(impl), option)

\* C3 witness: `#[get(public)]` then `#[get(name = "a")]` resolved to a private
\* immutable accessor named a
C3_Witness ==
    /\ getter_option.tag = "Ok"
    /\ field.attrs = <<AttrGetList(<<ArgPublic>>), AttrGetList(<<ArgNameA>>)>>
    /\ getter_option.v.which.immutable.option.visibility = VisPrivate
    /\ getter_option.v.which.immutable.option.name = FunctionName_new(Some("a"))


\* the selection accumulated over the attributes of the field, before validation:
\* Ok(Some(selection)), Ok(None) when no attribute selects a kind, else the failure
Scanned(f) == GetterOption_parse_loop(f.attrs, 1, None)

HasSelection(f) == Scanned(f).tag = "Ok" /\ Scanned(f).v.tag = "Some"
Selection(f) == Scanned(f).v.v

ValidationError(e) == Err(OptionParseError("OptionValidationError", [NoSource EXCEPT !.err = e]))

\* the selection has an immutable config with a by-value receiver
ByValueReceiver(which) == SelectsImmutable(which) /\ which.immutable.self_ty = "Value"

\* some selected accessor kind has neither a name override nor a field identifier
NameMissing(f, which) ==
    /\ f.ident = None
    /\ \/ SelectsImmutable(which) /\ which.immutable.option.name.name = None
       \/ SelectsMutable(which) /\ which.mutable.name.name = None

\* the name of the selected mutable accessor cannot be built: without an override
\* it is the text `<ident>_mut`, which is not a legal identifier for a raw identifier
NameAborts(f, which) ==
    /\ SelectsMutable(which)
    /\ FunctionName_name_mut(which.mutable.name, from_field_part(f.ident, f.index)) = Panic

\* C4 as stated: a by-value receiver with a by-reference return, in an
\* immutable-only or a Both selection, always fails with SelfMoveOnReturnRef,
\* and with a by-copy or by-clone return resolution succeeds.
C4_SelfMoveAlwaysReported ==
    (getter_option # Pending /\ HasSelection(field) /\ ByValueReceiver(Selection(field))) =>
        IF Selection(field).immutable.ty = "Ref"
        THEN getter_option = ValidationError("SelfMoveOnReturnRef")
        ELSE getter_option.tag = "Ok"

\* C4 amended: no selection returned successfully has an immutable config with a
\* by-value receiver and a by-reference return; when the receiver is by-value and
\* every selected kind has an accessor name, resolution fails with
\* SelfMoveOnReturnRef if the return is by-reference and succeeds if it is by-copy
\* or by-clone; when a name is missing it fails with FunctionNameMissing, and when
\* the name of the mutable accessor cannot be built resolution aborts.
C4_NoSelfMoveOnReturnRef ==
    /\ getter_option.tag = "Ok" =>
            ~(ByValueReceiver(getter_option.v.which)
                /\ getter_option.v.which.immutable.ty = "Ref")
    /\ (getter_option # Pending /\ HasSelection(field) /\ ByValueReceiver(Selection(field))) =>
            IF NameAborts(field, Selection(field))
            THEN getter_option = Panic
            ELSE IF NameMissing(field, Selection(field))
            THEN getter_option = ValidationError("FunctionNameMissing")
            ELSE IF Selection(field).immutable.ty = "Ref"
                 THEN getter_option = ValidationError("SelfMoveOnReturnRef")
                 ELSE getter_option.tag = "Ok"

\* C4 witness: a Both selection whose immutable config has a by-value receiver
\* and the default by-reference return was rejected with SelfMoveOnReturnRef
C4_Witness ==
    /\ getter_option = ValidationError("SelfMoveOnReturnRef")
    /\ HasSelection(field)
    /\ Selection(field).which = "Both"
    /\ Selection(field).immutable.self_ty = "Value"
    /\ Selection(field).immutable.ty = "Ref"

\* C5: for a field with a selection, resolution fails with FunctionNameMissing iff
\* the field has no identifier and a selected kind has no name override (either
\* kind of a Both selection); a positional field with `#[get(name = "a")]`
\* succeeds and its accessor is named a.
C5_FunctionNameMissing ==
    /\ (getter_option # Pending /\ HasSelection(field)) =>
            (getter_option = ValidationError("FunctionNameMissing")
                <=> NameMissing(field, Selection(field)))
    /\ (getter_option # Pending /\ field.ident = None
            /\ field.attrs = <<AttrGetList(<<ArgNameA>>)>>) =>
            /\ getter_option.tag = "Ok"
            /\ code # Pending => (code.tag = "Ok" /\ Len(code.v) = 1 /\ code.v[1].fn_name = "a")

\* C5 witness: the accessor of a positional field with `#[get(name = "a")]` was
\* emitted with the name a
C5_Witness ==
    /\ field.ident = None
    /\ field.attrs = <<AttrGetList(<<ArgNameA>>)>>
    /\ code.tag = "Ok"
    /\ code.v[1].fn_name = "a"

\* C6: a field that resolves and carries both a `get` and a `get_mut` attribute,
\* in either order, emits exactly two declarations, one immutable and one
\* mutable, both reading the field and using its declared type; a field carrying
\* one kind only emits exactly one declaration, of that kind.
C6_OneDeclarationPerKind ==
    code.tag = "Ok" =>
        LET has_get == KindPositions(field.attrs, IMMUTABLE) # {}
            has_mut == KindPositions(field.attrs, MUTABLE) # {}
            templates == [i \in 1..Len(code.v) |-> code.v[i].template]
        IN  /\ (has_get /\ has_mut) => templates = <<"fn(self)", "fn(&mut self)">>
            /\ (has_get /\ ~has_mut) => templates = <<"fn(self)">>
            /\ (~has_get /\ has_mut) => templates = <<"fn(&mut self)">>
            /\ \A i \in 1..Len(code.v) :
                    /\ code.v[i].ty = field.ty
                    /\ code.v[i].field_name
                        = (IF field.ident = None THEN ToString(field.index) ELSE field.ident.v)

\* C6 witness: a field with `#[get_mut]` before `#[get]` emitted two declarations
C6_Witness ==
    /\ code.tag = "Ok"
    /\ Len(code.v) = 2
    /\ \E i \in 1..Len(field.attrs), j \in 1..Len(field.attrs) :
            i < j /\ IsKind(field.attrs[i], MUTABLE) /\ IsKind(field.attrs[j], IMMUTABLE)

\* the attribute is a name-value attribute named `get` / `get_mut`
IsNameValueForm(attribute) ==
    attribute.meta = "NameValue" /\ is_valid_path_attribute(attribute.path)

NameValueError == Err(OptionParseError("NameValue", NoSource))

\* C7 as stated: a field carrying a name-value `get` / `get_mut` attribute fails
\* with NameValueFormNotSupported and emits nothing, whatever its shape and
\* whatever attributes precede or follow.
C7_NameValueAlwaysReported ==
    (getter_option # Pending /\ \E i \in 1..Len(field.attrs) : IsNameValueForm(field.attrs[i])) =>
        getter_option = NameValueError /\ code = Pending

\* C7 amended: such a field never resolves and emits nothing, whatever its shape
\* and its other attributes; the failure is NameValueFormNotSupported provided
\* every attribute before the first name-value one is processed without stopping
\* the scan (no unparsable list, no accumulation error, no abort).
C7_NameValueRejected ==
    getter_option # Pending =>
        \A i \in 1..Len(field.attrs) :
            IsNameValueForm(field.attrs[i]) =>
                /\ getter_option.tag # "Ok"
                /\ code = Pending
                /\ (\A k \in 1..(i - 1) :
                        GetterOption_parse_attribute(None, field.attrs[k]).tag = "Ok")
                    => getter_option = NameValueError

\* C7 witness: a positional field with a name-value attribute between two other
\* accessor attributes failed with NameValueFormNotSupported
C7_Witness ==
    /\ getter_option = NameValueError
    /\ field.ident = None
    /\ Len(field.attrs) = 3
    /\ IsKind(field.attrs[1], IMMUTABLE)
    /\ IsNameValueForm(field.attrs[2])
    /\ IsKind(field.attrs[3], MUTABLE)

-----------------------------------------------------------------------------
(* Properties of derive (Spec)                                             *)

\* derive has returned or unwound
Terminated == pc \in {"done", "panicked"}

\* the input is a struct with named or unnamed fields, at least `n` of them
StructWithFields(n) ==
    input.data = "Struct" /\ input.fields \in {"Named", "Unnamed"} /\ Len(input.list) >= n

\* the result of GetterOption::parse on the i-th field of the struct
Resolution(i) == GetterOption_parse(Field_new(input.list[i], i - 1))

IsNotFound(r) == r.tag = "Err" /\ r.e.error = "NotFound"
IsReported(r) == r.tag = "Err" /\ r.e.error # "NotFound"

\* the items of the implementation block of the output, none when the output
\* is not an implementation block
OutputItems == IF pc = "done" /\ output.out = "impl" THEN output.items ELSE <<>>

\* the declarations of a resolved field and the diagnostic of a failed field
Declarations(r) == ItemCode(GetterOption_to_tokens(r.v).v)
Diagnostic(r) == ItemCompileError(<<"error parsing option: ">> \o OptionParseError_display(r.e))

\* C8: for a struct with at least one field the output holds, per field, nothing
\* when its resolution is NotFound, exactly one diagnostic when it fails with
\* another error and its declarations when it succeeds; no field suppresses the
\* declarations or the diagnostic of another field.
C8_FieldsAreIndependent ==
    (Terminated /\ StructWithFields(1)) =>
        /\ \A i \in 1..Len(input.list) :
                /\ Resolution(i).tag = "Ok"
                    => \E k \in 1..Len(OutputItems) : OutputItems[k] = Declarations(Resolution(i))
                /\ IsReported(Resolution(i))
                    => \E k \in 1..Len(OutputItems) : OutputItems[k] = Diagnostic(Resolution(i))
        /\ Len(OutputItems) <= Cardinality({i \in 1..Len(input.list) : ~IsNotFound(Resolution(i))})

\* every field of the struct was consumed and its resolution returned an error
AllFieldsFailed ==
    /\ Len(log) = Len(input.list)
    /\ \A i \in 1..Len(log) : log[i].tag = "Err"

\* C9 as stated: when every field is skipped (NotFound) or fails with an error,
\* derive returns the single top-level diagnostic and nothing else.
C9_NoDeclarationIsTopLevelError ==
    (pc = "done" /\ StructWithFields(1) /\ AllFieldsFailed) => output = CompileError(NO_FIELD)

\* C9 amended: when every field is skipped (NotFound), derive returns the single
\* top-level diagnostic and nothing else; when every field is skipped or fails
\* and at least one fails with another error, derive returns the implementation
\* block holding exactly one diagnostic per failing field and no declaration.
C9_AllSkippedIsTopLevelError ==
    (pc = "done" /\ StructWithFields(1) /\ AllFieldsFailed) =>
        LET reported == {i \in 1..Len(log) : IsReported(log[i])}
        IN  IF reported = {}
            THEN output = CompileError(NO_FIELD)
            ELSE /\ output.out = "impl"
                 /\ Len(output.items) = Cardinality(reported)
                 /\ \A k \in 1..Len(output.items) : output.items[k].item = "compile_error"

\* C9 witness: derive returned the top-level diagnostic for a struct of two or
\* more fields that were all skipped
C9_Witness ==
    /\ pc = "done"
    /\ StructWithFields(2)
    /\ \A i \in 1..Len(log) : IsNotFound(log[i])
    /\ output = CompileError(NO_FIELD)

\* C10: deriving on a struct with zero fields, `struct S;` as well as
\* `struct S {}`, returns the fixed fieldless-struct diagnostic.
C10_FieldlessDiagnostic ==
    (pc = "done" /\ input.data = "Struct" /\ Len(input.list) = 0)
        => output = CompileError(FIELDLESS)

-----------------------------------------------------------------------------
(* Properties of the defaults and of the spellings                         *)

\* the field carries exactly one attribute, a bare or an empty-list accessor
\* attribute of the kind
IsBareOrEmpty(f, impl) ==
    /\ Len(f.attrs) = 1
    /\ is_ident(f.attrs[1].path, impl)
    /\ \/ f.attrs[1].meta = "Path"
       \/ f.attrs[1].meta = "List" /\ f.attrs[1].syn_ok /\ f.attrs[1].list = <<>>

DefaultMutableConfig == [visibility |-> VisPrivate, name |-> [name |-> None]]
DefaultImmutableConfig ==
    [option |-> DefaultMutableConfig, const_ty |-> "NonConstant", ty |-> "Ref", self_ty |-> "Ref"]

\* the selection accumulated for the field is the one kind with its config
SelectedAlone(f, kind, cfg) ==
    /\ HasSelection(f)
    /\ Selection(f).which = kind
    /\ IF kind = "Immutable" THEN Selection(f).immutable = cfg ELSE Selection(f).mutable = cfg

\* C11: parse on zero arguments returns, without error, the default config:
\* visibility Private and no name override for both kinds, and NonConstant, return
\* by reference and receiver by reference for the immutable one.  A field whose
\* only attribute is `#[get]` or `#[get()]` (`#[get_mut]` or `#[get_mut()]`)
\* selects the immutable (mutable) kind alone with that config, and when its
\* accessor name is defined it resolves successfully to it.
C11_ZeroArgumentsIsDefault ==
    /\ ParseGetterOption_parse(IMMUTABLE, <<>>) = Ok(DefaultImmutableConfig)
    /\ ParseGetterOption_parse(MUTABLE, <<>>) = Ok(DefaultMutableConfig)
    /\ (getter_option # Pending /\ IsBareOrEmpty(field, IMMUTABLE)) =>
            /\ SelectedAlone(field, "Immutable", DefaultImmutableConfig)
            /\ field.ident # None =>
                    /\ getter_option.tag = "Ok"
                    /\ getter_option.v.which = Selection(field)
    /\ (getter_option # Pending /\ IsBareOrEmpty(field, MUTABLE)) =>
            /\ SelectedAlone(field, "Mutable", DefaultMutableConfig)
            /\ (field.ident # None /\ ~NameAborts(field, Selection(field))) =>
                    /\ getter_option.tag = "Ok"
                    /\ getter_option.v.which = Selection(field)

\* C11 witness: a named field with the empty-list attribute `#[get()]` resolved to
\* the default immutable config
C11_Witness ==
    /\ field.ident # None
    /\ field.attrs = <<AttrGetList(<<>>)>>
    /\ getter_option.tag = "Ok"
    /\ getter_option.v.which.immutable = DefaultImmutableConfig

\* the argument, taken alone, matches no aspect of the accumulator
IsSkipped(impl, meta) == ResolvedAspect(impl, meta).tag = "Acceptable"

\* the argument list without the arguments that match no aspect
WithoutSkipped(impl, toks) ==
    LET Kept(meta) == ~IsSkipped(impl, meta)
    IN  SelectSeq(toks, Kept)

AcceptableErrors == {"PathNotRecognized", "LeftHandSideValueNotRecognized"}

\* C12: for every argument list, parse returns what it returns on the list with
\* the arguments that match no aspect removed, and the error it returns, if any,
\* is never an acceptable one.
C12_AcceptableIsSkipped ==
    parsed # Pending =>
        /\ parsed = ParseGetterOption_parse(accumulator, WithoutSkipped(accumulator, tokens))
        /\ parsed.tag \in {"Ok", "Err", "Panic"}
        /\ parsed.tag = "Err" =>
                /\ parsed.e.err \in {"AddConfigError", "FieldAttributeOptionSetMultipleTimes"}
                /\ parsed.e.e \notin AcceptableErrors

\* C12 witness: a list holding `foo` between two recognised arguments was parsed
\* to the config of the two recognised arguments
C12_Witness ==
    /\ accumulator = IMMUTABLE
    /\ tokens = <<ArgPublic, ArgFoo, ArgNameA>>
    /\ parsed = ParseGetterOption_parse(IMMUTABLE, <<ArgPublic, ArgNameA>>)
    /\ parsed.tag = "Ok"
    /\ parsed.v.option.visibility = VisPublic

\* C13 as stated: on a named field, `#[get(self_ty = "value", getter_ty = "ref")]`
\* fails with the validation error SelfMoveOnReturnRef, and
\* `#[get(self_ty = "value", getter_ty = "copy")]` succeeds.
C13_RefIsByReference ==
    (getter_option # Pending /\ field.ident # None /\ Len(field.attrs) = 1) =>
        /\ field.attrs[1] = AttrGetList(<<ArgSelfTyValue, ArgGetterTyRef>>) =>
                getter_option = ValidationError("SelfMoveOnReturnRef")
        /\ field.attrs[1] = AttrGetList(<<ArgSelfTyValue, ArgGetterTyCopy>>) =>
                getter_option.tag = "Ok"

\* the visibility held by an accumulator
VisibilityOf(impl, self) == IF impl = IMMUTABLE THEN self.option.visibility ELSE self.visibility

\* add_config was called on the argument
Added(meta) == added # Pending /\ tokens = <<meta>>

\* C14 as stated: the arguments `public`, `Public`, `pub` and
\* `visibility = "public"` all set the visibility to Visibility::Public, and the
\* visibility fragment emitted afterwards is the same for the four.
C14_PublicSpellingsAgree ==
    \A meta \in {Bare("public"), Bare("Public"), Bare("pub"), Assign("visibility", "public")} :
        /\ Added(meta) =>
                /\ added.res.tag = "Ok"
                /\ VisibilityOf(accumulator, added.self) = VisPublic
        /\ (Added(meta) /\ fragments # Pending) =>
                /\ fragments.tag = "Ok"
                /\ fragments.v[1].visibility = Visibility_to_code(VisPublic)

\* add_config set the constness to const_ty and reported the constness aspect
ConstnessSet(const_ty) ==
    /\ added.res = AddOk(ImmutableOption("ConstTy"))
    /\ added.self = [start EXCEPT !.const_ty = const_ty]

DeclarationsOf(tokens_, template) ==
    {i \in 1..Len(tokens_) : tokens_[i].template = template}

\* the name the claim gives to the accessor: the override verbatim, else `ident`
\* with the suffix
NameAsStated(override, ident, suffixed) ==
    IF override.name.tag = "Some" THEN override.name.v
    ELSE IF suffixed THEN format_mut(ident) ELSE ident

\* the receiver/return conflict of the immutable config
SelfMoveConflict(which) == ByValueReceiver(which) /\ which.immutable.ty = "Ref"

\* C16 as stated: for a named field whose attributes select accessors without a
\* receiver/return conflict, resolution succeeds and each selected kind is emitted
\* once, the immutable accessor named by its own override or else by the field
\* identifier, the mutable one by its own override or else by the identifier
\* suffixed with _mut.
C16_AccessorNames ==
    (getter_option # Pending /\ field.ident # None /\ HasSelection(field)
        /\ ~SelfMoveConflict(Selection(field))) =>
        /\ getter_option.tag = "Ok"
        /\ code # Pending =>
            /\ code.tag = "Ok"
            /\ SelectsImmutable(Selection(field)) =>
                    /\ Cardinality(DeclarationsOf(code.v, "fn(self)")) = 1
                    /\ \A i \in DeclarationsOf(code.v, "fn(self)") :
                            code.v[i].fn_name =
                                NameAsStated(Selection(field).immutable.option.name,
                                             field.ident.v, FALSE)
            /\ SelectsMutable(Selection(field)) =>
                    /\ Cardinality(DeclarationsOf(code.v, "fn(&mut self)")) = 1
                    /\ \A i \in DeclarationsOf(code.v, "fn(&mut self)") :
                            code.v[i].fn_name =
                                NameAsStated(Selection(field).mutable.name, field.ident.v, TRUE)

\* the five aspects of the immutable accumulator in the order of the claim, each
\* with the result of its parse_option on the argument
AspectOrder ==
    <<MutableOption("Visibility"), MutableOption("IdentOption"),
      ImmutableOption("ConstTy"), ImmutableOption("GetterTy"), ImmutableOption("SelfTy")>>

Recognitions(meta) ==
    <<Visibility_parse_option(meta), FunctionName_parse_option(meta),
      ConstTy_parse_option(meta), GetterTy_parse_option(meta), SelfTy_parse_option(meta)>>

\* the first aspect whose recognition is not an acceptable failure, 0 if none
FirstDecisive(meta) ==
    LET decisive == {i \in 1..5 : Recognitions(meta)[i].tag # "Acceptable"}
    IN  IF decisive = {} THEN 0 ELSE CHOOSE i \in decisive : \A j \in decisive : i <= j

\* the immutable accumulator with the i-th aspect set to a value
WithAspect(self, i, value) ==
    CASE i = 1 -> [self EXCEPT !.option.visibility = value]
      [] i = 2 -> [self EXCEPT !.option.name = value]
      [] i = 3 -> [self EXCEPT !.const_ty = value]
      [] i = 4 -> [self EXCEPT !.ty = value]
      [] i = 5 -> [self EXCEPT !.self_ty = value]

\* C20: add_config of the immutable accumulator decides on the first of
\* Visibility, Name, Constness, ReturnMode, ReceiverMode whose recognition of the
\* argument is not an acceptable failure: a match sets that aspect and is
\* reported as that aspect, an unacceptable failure is returned tagged with that
\* aspect, and the result is an acceptable failure iff all five fail acceptably.
C20_FirstDecisiveAspect ==
    (added # Pending /\ accumulator = IMMUTABLE) =>
        LET first == FirstDecisive(tokens[1])
            decided(recognition) ==
                CASE recognition.tag = "Ok" ->
                        /\ added.res = AddOk(AspectOrder[first])
                        /\ added.self = WithAspect(start, first, recognition.v)
                  [] recognition.tag = "Unacceptable" ->
                        /\ added.res = AddUnacceptable(recognition.e, AspectOrder[first])
                        /\ added.self = start
                  [] recognition.tag = "Panic" -> added.res = AddPanic
        IN  /\ added.res.tag = "Acceptable" <=> first = 0
            /\ first = 0 => added.self = start
            /\ first # 0 => decided(Recognitions(tokens[1])[first])

\* C20 witness: `not::ident = "public"`, which every aspect rejects as
\* unacceptable, was returned tagged with the visibility
C20_Witness ==
    /\ accumulator = IMMUTABLE
    /\ Added(MetaNameValue(<<"not", "ident">>, LitStr("public")))
    /\ \A i \in 1..5 : Recognitions(tokens[1])[i].tag = "Unacceptable"
    /\ added.res = AddUnacceptable("LeftHandSideValuePathIsNotIdent", MutableOption("Visibility"))

-----------------------------------------------------------------------------
(* Properties of CoordinateIterator (SpecIter)                             *)

\* the elements not yet yielded after the calls, for a double-ended queue that
\* starts as items: next removes the first, next_back the last
RECURSIVE RemainingAfter(_, _)
RemainingAfter(items, calls) ==
    IF calls = <<>> THEN items
    ELSE IF items = <<>> \/ Head(calls).call = "size_hint"
         THEN RemainingAfter(items, Tail(calls))
         ELSE IF Head(calls).call = "next"
              THEN RemainingAfter(Tail(items), Tail(calls))
              ELSE RemainingAfter(SubSeq(items, 1, Len(items) - 1), Tail(calls))

\* the elements not yet yielded before the k-th call
RemainingBefore(k) ==
    RemainingAfter(<<coordinate.x, coordinate.y>>, SubSeq(returned, 1, k - 1))

\* C17: under every interleaving of next and next_back on the iterator of
\* Coordinate(x, y), no call panics, next returns the first element not yet
\* yielded and next_back the last one, so that x and y are each yielded exactly
\* once, and once both are yielded every call of either returns None.
C17_DoubleEnded ==
    iter # Idle =>
        \A k \in 1..Len(returned) :
            /\ returned[k].ret # Panic
            /\ returned[k].call = "next" =>
                    returned[k].ret = IF RemainingBefore(k) = <<>> THEN None
                                      ELSE Some(Head(RemainingBefore(k)))
            /\ returned[k].call = "next_back" =>
                    returned[k].ret = IF RemainingBefore(k) = <<>> THEN None
                                      ELSE Some(RemainingBefore(k)[Len(RemainingBefore(k))])

\* C17 witness: on Coordinate(a, b), next yielded a, next_back yielded b, and
\* both returned None afterwards
C17_Witness ==
    /\ iter # Idle
    /\ coordinate = Coordinate_new("a", "b")
    /\ returned = <<Called("next", Some("a")), Called("next_back", Some("b")),
                    Called("next", None), Called("next_back", None)>>

\* the number of elements yielded before the k-th call
YieldedBefore(k) ==
    Cardinality({i \in 1..(k - 1) :
                    returned[i].call # "size_hint" /\ returned[i].ret.tag = "Some"})

\* C18: size_hint never underflows and returns (n, Some(n)) where n is 2 less the
\* number of elements yielded so far, that is 2, 1 or 0.
C18_SizeHintExact ==
    iter # Idle =>
        \A k \in 1..Len(returned) :
            returned[k].call = "size_hint" =>
                /\ returned[k].ret # Underflow
                /\ YieldedBefore(k) \in 0..2
                /\ returned[k].ret = [tag |-> "Ok", lower |-> 2 - YieldedBefore(k),
                                      upper |-> Some(2 - YieldedBefore(k))]

\* C18 witness: size_hint returned (1, Some(1)) after one element was yielded from
\* the back and (0, Some(0)) after the other was yielded from the front
C18_Witness ==
    /\ Len(returned) = 4
    /\ returned[1] = Called("next_back", Some(coordinate.y))
    /\ returned[2] = Called("size_hint", [tag |-> "Ok", lower |-> 1, upper |-> Some(1)])
    /\ returned[3] = Called("next", Some(coordinate.x))
    /\ returned[4] = Called("size_hint", [tag |-> "Ok", lower |-> 0, upper |-> Some(0)])

-----------------------------------------------------------------------------
(* Properties of gcd and lcm (SpecNumber)                                  *)

\* the least positive common multiple of two positive numbers
LeastCommonMultiple(a, b) ==
    LET common == {m \in {a * k : k \in 1..b} : m % b = 0}
    IN  CHOOSE m \in common : \A j \in common : m <= j

\* C19 as stated: gcd returns, and lcm(n1, n2) returns 0 when n1 or n2 is 0 and
\* otherwise the least common multiple of n1 and n2, for every pair whose least
\* common multiple fits the type.
C19_LcmOfRepresentable ==
    /\ (numbers # Idle /\ gcd_ret # Pending) => gcd_ret.tag = "Ok"
    /\ (numbers # Idle /\ lcm_ret # Pending) =>
            IF numbers.n1 = 0 \/ numbers.n2 = 0 THEN lcm_ret = Ok(0)
            ELSE LeastCommonMultiple(numbers.n1, numbers.n2) <= NumberMax =>
                    lcm_ret = Ok(LeastCommonMultiple(numbers.n1, numbers.n2))

-----------------------------------------------------------------------------
(* Properties of parse_option (SpecOption)                                 *)

\* parse_option of the aspect type returned for an argument of the form
ParsedForm(Self, form) ==
    recognized # Idle /\ recognized[Self] # Pending /\ tokens[1].meta = form

\* is_trigger of the claims: the name is one of the left-hand spellings of the aspect
IsTrigger(Self, path) == Len(path) = 1 /\ left_hand_path_accepted(Self, path[1])

\* the result the claims state for a value handed to recognize_value: the
\* recognized value on a hit, an unacceptable failure on a miss
Recognized(value) ==
    IF value.tag = "Some" THEN Ok(value.v) ELSE Unacceptable("RightHandValueInvalid")

\* C21 as stated: for every aspect and every `name = literal` argument the result
\* is an acceptable failure when the name is not a trigger of the aspect, an
\* unacceptable failure when it is a trigger and the literal is not a string,
\* and otherwise that of recognize_value on the string, an unacceptable failure
\* when it misses.
C21_NameValueProtocol ==
    \A Self \in Aspects :
        ParsedForm(Self, "NameValue") =>
            IF ~IsTrigger(Self, tokens[1].path)
            THEN recognized[Self].tag = "Acceptable"
            ELSE IF tokens[1].value.lit # "Str"
            THEN recognized[Self].tag = "Unacceptable"
            ELSE /\ recognized[Self].tag \in {"Ok", "Unacceptable"}
                 /\ recognized[Self] =
                        Recognized(parse_option_from_str_assignment(Self, tokens[1].value.s))

\* C21 amended: a name that is not a single identifier is the unacceptable
\* failure LeftHandSideValuePathIsNotIdent for every aspect; a single identifier
\* that is not a trigger is the acceptable failure LeftHandSideValueNotRecognized;
\* for a trigger, the constness takes a boolean literal as its value, any other
\* literal that is not a string is the unacceptable failure
\* RightHandNameValueExprNotLitString, and a string gives the result of
\* recognize_value, RightHandValueInvalid on a miss, except that the name aspect
\* aborts on a string that is not a legal identifier.
C21_NameValueProtocolOfIdent ==
    \A Self \in Aspects :
        ParsedForm(Self, "NameValue") =>
            LET name == tokens[1].path
                literal == tokens[1].value
            IN  CASE Len(name) # 1 ->
                        recognized[Self] = Unacceptable("LeftHandSideValuePathIsNotIdent")
                  [] Len(name) = 1 /\ ~IsTrigger(Self, name) ->
                        recognized[Self] = Acceptable("LeftHandSideValueNotRecognized")
                  [] IsTrigger(Self, name) /\ Self = "ConstTy" /\ literal.lit = "Bool" ->
                        recognized[Self] = Ok(IF literal.s = "true" THEN "Constant"
                                              ELSE "NonConstant")
                  [] IsTrigger(Self, name) /\ literal.lit # "Str"
                        /\ ~(Self = "ConstTy" /\ literal.lit = "Bool") ->
                        recognized[Self] = Unacceptable("RightHandNameValueExprNotLitString")
                  [] IsTrigger(Self, name) /\ literal.lit = "Str" ->
                        IF Self = "FunctionName" /\ literal.s \in InvalidIdentStrings
                        THEN recognized[Self] = Panic
                        ELSE recognized[Self] =
                                Recognized(parse_option_from_str_assignment(Self, literal.s))

\* C21 witness: the receiver mode returned RightHandValueInvalid for
\* `self_ty = "misformed"`, a trigger with a string that recognize_value misses
C21_Witness ==
    /\ ParsedForm("SelfTy", "NameValue")
    /\ tokens = <<Assign("self_ty", "misformed")>>
    /\ recognized["SelfTy"] = Unacceptable("RightHandValueInvalid")
    /\ recognized["Visibility"] = Acceptable("LeftHandSideValueNotRecognized")

\* C22 as stated: for every aspect and every `name(inner)` argument the result is
\* an acceptable failure when the name is not a trigger of the aspect, a
\* multi-segment name such as `not::an::ident(1)` included; an unacceptable
\* failure when it is a trigger and inner is not a single bare word; and
\* otherwise that of recognize_value on the word, an unacceptable failure when
\* it misses.
C22_MetaListProtocol ==
    \A Self \in Aspects :
        ParsedForm(Self, "List") =>
            IF ~IsTrigger(Self, tokens[1].path)
            THEN recognized[Self].tag = "Acceptable"
            ELSE IF parse_args_Ident(tokens[1].args).tag = "Err"
            THEN recognized[Self].tag = "Unacceptable"
            ELSE /\ recognized[Self].tag \in {"Ok", "Unacceptable"}
                 /\ recognized[Self] =
                        Recognized(parse_option_from_str_assignment(
                                       Self, parse_args_Ident(tokens[1].args).v))

-----------------------------------------------------------------------------
(* Properties of GetterOption::parse (SpecField), continued                *)

\* the attribute, scanned on its own, lets the scan go on
ScansOk(attribute) == GetterOption_parse_attribute(None, attribute).tag = "Ok"

\* the positions of the attributes that do not let the scan go on
FailingAttributes(attrs) == {k \in 1..Len(attrs) : ~ScansOk(attrs[k])}

\* the attribute cut after its j-th argument
CutAfter(attribute, j) == [attribute EXCEPT !.list = SubSeq(@, 1, j)]

\* the attribute hands its arguments to an accumulator
IsAccumulated(attribute) ==
    attribute.meta = "List" /\ attribute.syn_ok /\ is_valid_path_attribute(attribute.path)

\* the failures of validation and the absence of a selection
AfterScanErrors == {"OptionValidationError", "NotFound"}

\* C23: resolution of a field ends with at most one failure.  When an attribute
\* fails, the result is the failure of the first failing attribute in declaration
\* order and, in it, of the first failing argument from the left; it is the same
\* as for the field cut right after that argument, so nothing after it is
\* examined.  FunctionNameMissing, SelfMoveOnReturnRef and NotFound are returned
\* only when every attribute was scanned without a failure.
C23_FirstFailureOnly ==
    getter_option # Pending =>
        LET failing == FailingAttributes(field.attrs)
            first == CHOOSE k \in failing : \A i \in failing : k <= i
            attribute == field.attrs[first]
        IN  IF failing = {}
            THEN getter_option.tag = "Err" => getter_option.e.error \in AfterScanErrors
            ELSE /\ getter_option = GetterOption_parse_attribute(None, attribute)
                 /\ getter_option = GetterOption_parse([field EXCEPT !.attrs = SubSeq(@, 1, first)])
                 /\ getter_option.tag = "Err" => getter_option.e.error \notin AfterScanErrors
                 /\ IsAccumulated(attribute) =>
                        \E j \in 1..Len(attribute.list) :
                            /\ ScansOk(CutAfter(attribute, j - 1))
                            /\ GetterOption_parse_attribute(None, CutAfter(attribute, j))
                                    = getter_option

\* C23 witness: the first argument of the first attribute failed, its second
\* argument is a name that is not a legal identifier and the next attribute is
\* in the name-value form; the failure of the first argument was returned
C23_Witness ==
    /\ getter_option # Pending
    /\ field.attrs = <<AttrGetList(<<ArgVisibilityInt, ArgNameInvalid>>), AttrGetNameValue>>
    /\ getter_option =
            Err(OptionParseError("GetterParseError",
                    AddConfigError("RightHandNameValueExprNotLitString",
                                   MutableOption("Visibility"))))

\* the selection of the attributes before the last one
SelectionBeforeLast(f) ==
    GetterOption_parse_loop(SubSeq(f.attrs, 1, Len(f.attrs) - 1), 1, None).v

\* C24: when the last attribute of a resolved field is of one accessor kind and
\* the attributes before it selected Both, the result is Both with the half of
\* that kind replaced by the config of the last attribute and the other half
\* carried over unchanged; when they selected the other kind alone, the result is
\* Both with the existing config unchanged next to the new one.
C24_MergeCarriesOtherHalf ==
    (getter_option.tag = "Ok" /\ Len(field.attrs) >= 2
        /\ SelectionBeforeLast(field).tag = "Some") =>
        LET previous == SelectionBeforeLast(field).v
            last == field.attrs[Len(field.attrs)]
            which == getter_option.v.which
        IN  /\ (IsKind(last, IMMUTABLE) /\ previous.which \in {"Both", "Mutable"}) =>
                    /\ which.which = "Both"
                    /\ which.immutable = ConfigOf(last)
                    /\ which.mutable = previous.mutable
            /\ (IsKind(last, MUTABLE) /\ previous.which \in {"Both", "Immutable"}) =>
                    /\ which.which = "Both"
                    /\ which.mutable = ConfigOf(last)
                    /\ which.immutable = previous.immutable

\* C24 witness: `#[get(name = "b", Const)]` and `#[get_mut(public)]` selected
\* Both, then a bare `#[get_mut]` replaced the mutable half by the default config
\* and the immutable half was carried over
C24_Witness ==
    /\ getter_option.tag = "Ok"
    /\ field.attrs = <<AttrGetList(<<ArgNameB, ArgConst>>), AttrGetMutList(<<ArgPublic>>), AttrGetMut>>
    /\ SelectionBeforeLast(field).v.which = "Both"
    /\ getter_option.v.which = Both(ConfigOf(field.attrs[1]), MutableGetterOption_default)

\* the attribute is named neither `get` nor `get_mut`
IsForeign(attribute) == ~is_valid_path_attribute(attribute.path)

\* the attributes of the list that are not foreign, in their order
RECURSIVE WithoutForeign(_)
WithoutForeign(attrs) ==
    IF attrs = <<>> THEN <<>>
    ELSE IF IsForeign(attrs[1]) THEN WithoutForeign(Tail(attrs))
    ELSE <<attrs[1]>> \o WithoutForeign(Tail(attrs))

NotFoundError == Err(OptionParseError("NotFound", NoSource))

\* C25 as stated: an attribute named neither `get` nor `get_mut` has no effect on
\* the resolution of a field, whatever its shape and content: a field carrying
\* only such attributes resolves to NotFound, and the result of a field is the one
\* of the same field without these attributes.
C25_ForeignAttributeIgnored ==
    getter_option # Pending =>
        /\ (\A i \in 1..Len(field.attrs) : IsForeign(field.attrs[i])) =>
                getter_option = NotFoundError
        /\ getter_option = GetterOption_parse([field EXCEPT !.attrs = WithoutForeign(@)])

\* an accessor has a name: its own override, else the identifier of the field
HasName(override, f) == override.name.tag = "Some" \/ f.ident.tag = "Some"

\* C26: every selection that resolution returns has, for each accessor kind it
\* selects, a name override or a field identifier to take the name from, and the
\* emission of a returned selection never fails on the name lookup: it yields
\* one declaration per selected kind.
C26_ResolvedIsNamed ==
    /\ getter_option.tag = "Ok" =>
            LET which == getter_option.v.which
                field_name == getter_option.v.field.field_name
            IN  /\ SelectsImmutable(which) =>
                        /\ HasName(which.immutable.option.name, field)
                        /\ FunctionName_name(which.immutable.option.name, field_name).tag = "Some"
                /\ SelectsMutable(which) =>
                        /\ HasName(which.mutable.name, field)
                        /\ FunctionName_name_mut(which.mutable.name, field_name).tag = "Some"
    /\ code # Pending =>
            /\ code.tag = "Ok"
            /\ Len(code.v) = IF getter_option.v.which.which = "Both" THEN 2 ELSE 1

\* C26 witness: a positional field with a name override on both accessors was
\* resolved to Both and both declarations were emitted
C26_Witness ==
    /\ field.ident = None
    /\ field.attrs = <<AttrGetList(<<ArgNameA>>), AttrGetMutList(<<ArgNameB>>)>>
    /\ getter_option.tag = "Ok"
    /\ getter_option.v.which.which = "Both"
    /\ code # Pending
    /\ code.tag = "Ok"
    /\ <<code.v[1].fn_name, code.v[2].fn_name>> = <<"a", "b">>

-----------------------------------------------------------------------------
(* Properties of add_config (SpecArg), continued                           *)

\* the aspects an accumulator tries, as positions of AspectOrder
AspectsOf(impl) == IF impl = IMMUTABLE THEN 1..5 ELSE 1..2

\* the aspect at a position as the accumulator reports it
Reported(impl, i) == IF impl = IMMUTABLE THEN AspectOrder[i] ELSE AspectOrder[i].inner

\* the first position of the order whose aspect does not fail acceptably, 0 if none
FirstDecisiveIn(order, meta) ==
    LET decisive == {k \in DOMAIN order : Recognitions(meta)[order[k]].tag # "Acceptable"}
    IN  IF decisive = {} THEN 0 ELSE order[CHOOSE k \in decisive : \A j \in decisive : k <= j]

\* the value add_config returns with the aspects tried in the order: the match or
\* the unacceptable failure of the first decisive aspect, else the acceptable
\* failure of the aspect tried last
OutcomeOf(impl, order, meta) ==
    LET match(i, recognition) ==
            CASE recognition.tag = "Ok" -> AddOk(Reported(impl, i))
              [] recognition.tag = "Unacceptable" ->
                    AddUnacceptable(recognition.e, Reported(impl, i))
              [] recognition.tag = "Panic" -> AddPanic
              [] recognition.tag = "Acceptable" -> AddAcceptable(recognition.e)
        decides(i) == match(i, Recognitions(meta)[i])
    IN  IF FirstDecisiveIn(order, meta) = 0
        THEN decides(order[Cardinality(DOMAIN order)])
        ELSE decides(FirstDecisiveIn(order, meta))

\* the orders in which the aspects of an accumulator can be tried
Orders(impl) ==
    {order \in [AspectsOf(impl) -> AspectsOf(impl)] :
        \A i, j \in AspectsOf(impl) : order[i] = order[j] => i = j}

\* C27: the grammars of the five aspects are pairwise disjoint.  For an argument
\* whose name is a single identifier: the identifier is a trigger of at most one
\* aspect and is recognized as a bare word by at most one aspect; at most one
\* aspect matches it or rejects it as unacceptable; and the value add_config
\* returned is the one obtained with the aspects tried in any order.
C27_GrammarsDisjoint ==
    (added # Pending /\ Len(tokens[1].path) = 1) =>
        LET meta == tokens[1]
            word == meta.path[1]
        IN  /\ Cardinality({Self \in Aspects : left_hand_path_accepted(Self, word)}) <= 1
            /\ Cardinality({Self \in Aspects : parse_option_from_str(Self, word).tag = "Some"}) <= 1
            /\ Cardinality({i \in 1..5 : Recognitions(meta)[i].tag # "Acceptable"}) <= 1
            /\ \A order \in Orders(accumulator) :
                    added.res = OutcomeOf(accumulator, order, meta)

\* C27 witness: `Self_type(copy)`, whose value `copy` is a spelling of the return
\* mode and of the receiver mode, was matched by the receiver mode, the only
\* aspect with the trigger Self_type
C27_Witness ==
    /\ accumulator = IMMUTABLE
    /\ Added(Call("Self_type", "copy"))
    /\ GetterTy_parse_option_from_str_assignment("copy") = Some("Copy")
    /\ added.res = AddOk(ImmutableOption("SelfTy"))
    /\ added.self.self_ty = "Value"
    /\ added.self.ty = start.ty

-----------------------------------------------------------------------------
(* Properties of ParseGetterOption::parse (SpecParse), continued           *)

\* the argument is addressed to the aspect: a bare word the aspect recognizes, or
\* an assignment or a parenthesized form with a trigger of the aspect
IsAddressedTo(Self, meta) ==
    /\ Len(meta.path) = 1
    /\ IF meta.meta = "Path"
       THEN parse_option_from_str(Self, meta.path[1]).tag = "Some"
       ELSE left_hand_path_accepted(Self, meta.path[1])

\* the argument is addressed to the constness, the return mode or the receiver mode
IsImmutableOnly(meta) == \E Self \in {"ConstTy", "GetterTy", "SelfTy"} : IsAddressedTo(Self, meta)

\* C28: on the mutable accumulator an argument addressed to the constness, the
\* return mode or the receiver mode, well formed or not, is neither an error nor
\* a change: parse returns what it returns for the list without these arguments,
\* and the default config when the list holds nothing else.
C28_MutableIgnoresImmutableOnly ==
    (parsed # Pending /\ accumulator = MUTABLE) =>
        LET kept(meta) == ~IsImmutableOnly(meta)
        IN  /\ parsed = ParseGetterOption_parse(MUTABLE, SelectSeq(tokens, kept))
            /\ SelectSeq(tokens, kept) = <<>> => parsed = Ok(MutableGetterOption_default)

\* C28 witness: `#[get_mut(Const, self_ty = 1, name = "a")]` parsed to the
\* private mutable config named a
C28_Witness ==
    /\ accumulator = MUTABLE
    /\ tokens = <<ArgConst, ArgSelfTyInt, ArgNameA>>
    /\ ConstTy_parse_option(ArgConst).tag = "Ok"
    /\ SelfTy_parse_option(ArgSelfTyInt).tag = "Unacceptable"
    /\ parsed = Ok([visibility |-> VisPrivate, name |-> FunctionName_new(Some("a"))])

\* C29: when add_config reports a match, the matched aspect holds the recognized
\* value and every other aspect of the accumulator keeps the value it had before
\* the call; when it returns an acceptable or an unacceptable failure, the
\* accumulator is left entirely unchanged.
C29_AddOneFrame ==
    added # Pending =>
        CASE added.res.tag = "Ok" ->
                /\ \A option \in AllOptions(accumulator) \ {added.res.option} :
                        OptionValue(accumulator, added.self, option)
                            = OptionValue(accumulator, start, option)
                /\ \E i \in AspectsOf(accumulator) :
                        /\ Reported(accumulator, i) = added.res.option
                        /\ Recognitions(tokens[1])[i].tag = "Ok"
                        /\ OptionValue(accumulator, added.self, added.res.option)
                            = <<Recognitions(tokens[1])[i].v>>
          [] added.res.tag \in {"Acceptable", "Unacceptable"} -> added.self = start
          [] OTHER -> added.res = AddPanic

\* C29 witness: `getter_ty = "copy"` was added to an accumulator on which every
\* aspect had been set: the return mode became Copy and the four other aspects
\* kept their values
C29_Witness ==
    /\ accumulator = IMMUTABLE
    /\ Added(Assign("getter_ty", "copy"))
    /\ start = [option |-> [visibility |-> VisCrate(None), name |-> FunctionName_new(Some("b"))],
                const_ty |-> "Constant", ty |-> "Clone", self_ty |-> "Ref"]
    /\ added.res = AddOk(ImmutableOption("GetterTy"))
    /\ added.self = [start EXCEPT !.ty = "Copy"]

\* the named errors of field resolution
NamedErrors ==
    {"ExprParseError", "GetterParseError", "NameValue", "NotFound", "OptionValidationError"}

\* the field has a `get` / `get_mut` list attribute with the argument, and no
\* attribute or argument before it fails
FirstFailureIs(f, meta) ==
    \E k \in 1..Len(f.attrs) :
        /\ \A i \in 1..(k - 1) : ScansOk(f.attrs[i])
        /\ IsAccumulated(f.attrs[k])
        /\ \E j \in 1..Len(f.attrs[k].list) :
            /\ f.attrs[k].list[j] = meta
            /\ ScansOk(CutAfter(f.attrs[k], j - 1))

\* C30 as stated: field resolution is total: for every field and every list of
\* attributes it returns a resolved selection or one of the named errors and never
\* aborts; a name override whose string is not a legal identifier gives a named
\* error attributed to the name aspect.
C30_ResolutionIsTotal ==
    getter_option # Pending =>
        /\ getter_option.tag \in {"Ok", "Err"}
        /\ getter_option.tag = "Err" => getter_option.e.error \in NamedErrors
        /\ FirstFailureIs(field, ArgNameInvalid) =>
                /\ getter_option.tag = "Err"
                /\ getter_option.e.error = "GetterParseError"
                /\ getter_option.e.source.option = MutableOption("IdentOption")

====
